---- MODULE Spec2Model ----
(***************************************************************************)
(* Live-tail streaming subsystem of axe (src/live_tail_parser.rs and       *)
(* src/live_tail_client.rs): the event-stream frame decoder                *)
(* (EventStreamParser), the record decoder (MessageParser) and the loop of *)
(* request_and_process that hands records to the consumer; and the time    *)
(* arguments of the command line (src/log.rs, src/time_arg.rs).            *)
(*                                                                         *)
(* Bytes are naturals 0..255, a Rust String is the sequence of its UTF-8   *)
(* bytes, a u32 is a pair of 16-bit halves [hi, lo] (2^32 does not fit the *)
(* checker's integers), an Option is a record with a `some` flag.          *)
(***************************************************************************)
EXTENDS Naturals, Integers, Sequences, FiniteSets, TLC

VARIABLES
    stream,     \* names of the frames the server sends (fixed per behaviour)
    wire,       \* bytes of the response body not yet delivered as a chunk
    esp,        \* EventStreamParser: buffer, state, remain_len, previous, header_name, is_session_update
    mp,         \* MessageParser: parsed
    pc,         \* where the single flow of control of request_and_process is
    item,       \* the Option<Result<..>> being returned from one layer to the next
    result,     \* what request_and_process returned
    calls,      \* the calls of the consumer so far: its arguments and its answer
    obs,        \* observation of the run (history): see ObsInit
    req,        \* the request of request_and_process: its arguments, its locals, what was sent and received
    targ,       \* a time argument of the command line: its text, the clock, the parser called and its result
    cli,        \* the command loop of main: the alias table, the command line, where the loop is
    pager       \* historical retrieval: the function called, the last response, the answers of the consumer

vars == <<stream, wire, esp, mp, pc, item, result, calls, obs, req, targ, cli, pager>>

(***************************************************************************)
(* Bounds of the model                                                     *)
(***************************************************************************)
\* A chunk of the response body holds 1..MaxChunk bytes, or all that is left.
MaxChunk == 6
\* A stream is at most MaxFrames frames long.
MaxFrames == 2

\* the items after which the caller of the frame decoder alone pulls no more
MaxItems == 4

\* the pages the model requests in one historical retrieval
MaxPages == 3

(***************************************************************************)
(* Fixed-width integers                                                    *)
(***************************************************************************)
Half == 256 * 256

Min(a, b) == IF a <= b THEN a ELSE b

\* n as u32, for 0 <= n < 2^31
U32(n) == [hi |-> n \div Half, lo |-> n % Half]

U32Zero == U32(0)

\* u32::MAX
U32Max == [hi |-> Half - 1, lo |-> Half - 1]

\* a - b on u32: the wrapped difference, and whether it underflowed
U32Sub(a, b) ==
    LET lo == a.lo - b.lo
        borrow == IF lo < 0 THEN 1 ELSE 0
        hi == a.hi - b.hi - borrow
    IN  [val |-> [hi |-> (hi + Half) % Half, lo |-> (lo + Half) % Half],
         underflow |-> hi < 0]

\* (a as usize) <= n, for a u32 a and a natural n
U32Leq(a, n) == a.hi < n \div Half \/ (a.hi = n \div Half /\ a.lo <= n % Half)

\* big-endian fold of read_u32 / read_u16 : a << 8 | v
FoldU32(b) == [hi |-> b[1] * 256 + b[2], lo |-> b[3] * 256 + b[4]]

FoldU16(b) == b[1] * 256 + b[2]

(***************************************************************************)
(* Strings                                                                 *)
(***************************************************************************)
\* ":event-type"
EVENT_TYPE == <<58,101,118,101,110,116,45,116,121,112,101>>
\* "sessionUpdate"
SESSION_UPDATE == <<115,101,115,115,105,111,110,85,112,100,97,116,101>>
\* ":content-type"
CONTENT_TYPE == <<58,99,111,110,116,101,110,116,45,116,121,112,101>>
\* "application/x-amz-json-1.1"
JSON_TYPE == <<97,112,112,108,105,99,97,116,105,111,110,47,120,45,97,109,122,45,106,115,111,110,45,49,46,49>>

Drop(s, n) == SubSeq(s, Min(n, Len(s)) + 1, Len(s))

Take(s, n) == SubSeq(s, 1, Min(n, Len(s)))

IsCont(b) == b >= 128 /\ b <= 191

\* String::from_utf8 accepts s from index i on (the well-formed UTF-8 byte
\* sequences of the Unicode standard, as core::str::from_utf8 validates them)
RECURSIVE ValidUtf8From(_, _)
ValidUtf8From(s, i) ==
    IF i > Len(s) THEN TRUE
    ELSE LET b == s[i]
             has(k) == i + k <= Len(s)
             c(k) == s[i + k]
         IN  IF b < 128 THEN ValidUtf8From(s, i + 1)
             ELSE IF b >= 194 /\ b <= 223
                  THEN has(1) /\ IsCont(c(1)) /\ ValidUtf8From(s, i + 2)
             ELSE IF b >= 224 /\ b <= 239
                  THEN /\ has(2)
                       /\ IF b = 224 THEN c(1) >= 160 /\ c(1) <= 191
                          ELSE IF b = 237 THEN c(1) >= 128 /\ c(1) <= 159
                          ELSE IsCont(c(1))
                       /\ IsCont(c(2))
                       /\ ValidUtf8From(s, i + 3)
             ELSE IF b >= 240 /\ b <= 244
                  THEN /\ has(3)
                       /\ IF b = 240 THEN c(1) >= 144 /\ c(1) <= 191
                          ELSE IF b = 244 THEN c(1) >= 128 /\ c(1) <= 143
                          ELSE IsCont(c(1))
                       /\ IsCont(c(2))
                       /\ IsCont(c(3))
                       /\ ValidUtf8From(s, i + 4)
             ELSE FALSE

\* String::from_utf8(v): Ok(v) or Err(Utf8)
from_utf8(v) == ValidUtf8From(v, 1)

(***************************************************************************)
(* serde_json::from_str::<SessionUpdate>                                   *)
(*                                                                         *)
(* A derived Deserialize reads a struct from a JSON object or from a JSON  *)
(* array of its fields in declaration order.  The documents of this model  *)
(* use the array form without white space and without escapes,             *)
(*     [[sampled],[[ingestionTime,"group","stream","message",timestamp],..]]*)
(* and the parser below accepts exactly that form; every other text of the *)
(* model's payloads is no JSON at all.  A u64 is kept as its decimal       *)
(* digits.                                                                 *)
(***************************************************************************)
At(s, i) == IF i >= 1 /\ i <= Len(s) THEN s[i] ELSE -1

IsDigit(b) == b >= 48 /\ b <= 57

Fail == [ok |-> FALSE, val |-> <<>>, next |-> 0]

\* first index from i on that holds no digit
RECURSIVE DigitsEnd(_, _)
DigitsEnd(s, i) == IF IsDigit(At(s, i)) THEN DigitsEnd(s, i + 1) ELSE i

\* u64::MAX = 18446744073709551615, as digits
U64MaxDigits == <<1,8,4,4,6,7,4,4,0,7,3,7,0,9,5,5,1,6,1,5>>

\* a <= b for digit sequences of the same length
RECURSIVE DigitsLeq(_, _)
DigitsLeq(a, b) ==
    IF a = <<>> THEN TRUE
    ELSE IF Head(a) # Head(b) THEN Head(a) < Head(b)
    ELSE DigitsLeq(Tail(a), Tail(b))

FitsU64(d) ==
    \/ Len(d) < Len(U64MaxDigits)
    \/ Len(d) = Len(U64MaxDigits) /\ DigitsLeq(d, U64MaxDigits)

\* a JSON number read into a u64 field
ParseU64(s, i) ==
    IF ~IsDigit(At(s, i)) THEN Fail
    ELSE LET e == IF At(s, i) = 48 THEN i + 1 ELSE DigitsEnd(s, i)
             d == [k \in 1..(e - i) |-> s[i + k - 1] - 48]
         IN  IF FitsU64(d) THEN [ok |-> TRUE, val |-> d, next |-> e] ELSE Fail

\* first index from i on that holds the closing quote, 0 if a byte before it
\* is a control character or a backslash, or the text ends
RECURSIVE StrEnd(_, _)
StrEnd(s, i) ==
    LET b == At(s, i)
    IN  IF b = 34 THEN i
        ELSE IF b < 32 \/ b = 92 THEN 0
        ELSE StrEnd(s, i + 1)

\* a JSON string read into a String field
ParseString(s, i) ==
    IF At(s, i) # 34 THEN Fail
    ELSE LET e == StrEnd(s, i + 1)
         IN  IF e = 0 THEN Fail
             ELSE [ok |-> TRUE, val |-> SubSeq(s, i + 1, e - 1), next |-> e + 1]

\* the tokens of one SessionResult in array form
ResultFormat == <<"[", "u64", ",", "str", ",", "str", ",", "str", ",", "u64", "]">>

Punct(t) == CASE t = "[" -> 91 [] t = "]" -> 93 [] t = "," -> 44

\* one token of a format at index i
ParseToken(s, i, t) ==
    CASE t = "u64" -> ParseU64(s, i)
      [] t = "str" -> ParseString(s, i)
      [] OTHER -> IF At(s, i) = Punct(t) THEN [ok |-> TRUE, val |-> <<>>, next |-> i + 1] ELSE Fail

\* the tokens of fmt from index i on; the values of the fields are collected in acc
RECURSIVE ParseTokens(_, _, _, _)
ParseTokens(s, i, fmt, acc) ==
    IF fmt = <<>> THEN [ok |-> TRUE, val |-> acc, next |-> i]
    ELSE LET r == ParseToken(s, i, Head(fmt))
         IN  IF ~r.ok THEN Fail
             ELSE ParseTokens(s, r.next, Tail(fmt),
                              IF Head(fmt) \in {"u64", "str"} THEN Append(acc, r.val) ELSE acc)

\* one SessionResult: [ingestion_time, log_group_identifier, log_stream_name, message, timestamp]
ParseSessionResult(s, i) ==
    LET r == ParseTokens(s, i, ResultFormat, <<>>)
    IN  IF ~r.ok THEN Fail
        ELSE [ok |-> TRUE,
              val |-> [ingestion_time |-> r.val[1],
                       log_group_identifier |-> r.val[2],
                       log_stream_name |-> r.val[3],
                       message |-> r.val[4],
                       timestamp |-> r.val[5]],
              next |-> r.next]

\* the elements of Vec<SessionResult> from i on, up to the closing bracket
RECURSIVE ParseResults(_, _, _)
ParseResults(s, i, acc) ==
    LET r == ParseSessionResult(s, i)
    IN  IF ~r.ok THEN Fail
        ELSE IF At(s, r.next) = 44 THEN ParseResults(s, r.next + 1, Append(acc, r.val))
        ELSE IF At(s, r.next) = 93
             THEN [ok |-> TRUE, val |-> Append(acc, r.val), next |-> r.next + 1]
        ELSE Fail

\* SessionMetadata: [sampled]
ParseMetadata(s, i) ==
    IF SubSeq(s, i, Min(i + 5, Len(s))) = <<91,116,114,117,101,93>>
    THEN [ok |-> TRUE, val |-> TRUE, next |-> i + 6]
    ELSE IF SubSeq(s, i, Min(i + 6, Len(s))) = <<91,102,97,108,115,101,93>>
    THEN [ok |-> TRUE, val |-> FALSE, next |-> i + 7]
    ELSE Fail

\* serde_json::from_str::<SessionUpdate>(text): ok and the session_results, or an error
from_str(s) ==
    LET m == IF At(s, 1) = 91 THEN ParseMetadata(s, 2) ELSE Fail
        open == m.ok /\ At(s, m.next) = 44 /\ At(s, m.next + 1) = 91
        rs == IF ~open THEN Fail
              ELSE IF At(s, m.next + 2) = 93
                   THEN [ok |-> TRUE, val |-> <<>>, next |-> m.next + 3]
              ELSE ParseResults(s, m.next + 2, <<>>)
    IN  IF rs.ok /\ At(s, rs.next) = 93 /\ rs.next = Len(s)
        THEN [ok |-> TRUE, session_results |-> rs.val]
        ELSE [ok |-> FALSE, session_results |-> <<>>]

(***************************************************************************)
(* The wire format, as the server writes it                                *)
(***************************************************************************)
U32Bytes(n) == <<(n \div 16777216) % 256, (n \div 65536) % 256, (n \div 256) % 256, n % 256>>

U16Bytes(n) == <<(n \div 256) % 256, n % 256>>

\* the two checksums of a frame: never verified, the bytes of the repository's tests
PreludeCrc == <<143, 159, 152, 22>>

TrailingCrc == <<118, 15, 138, 119>>

\* name_len:1, name, value_type:1, value_len:2, value
HeaderBytes(h) == <<Len(h.name)>> \o h.name \o <<h.type>> \o U16Bytes(Len(h.value)) \o h.value

RECURSIVE HeadersBytes(_)
HeadersBytes(hs) == IF hs = <<>> THEN <<>> ELSE HeaderBytes(Head(hs)) \o HeadersBytes(Tail(hs))

\* total length of a frame whose length fields are right: the 12 bytes of
\* the prelude, the headers, the payload and the 4 bytes of the checksum
RightTotal(f) == 16 + Len(HeadersBytes(f.headers)) + Len(f.payload)

\* the bytes of frame f; f.total < 0 stands for the right total length,
\* f.header_len < 0 for the right length of the header block
FrameBytes(f) ==
    LET hb == HeadersBytes(f.headers)
    IN  U32Bytes(IF f.total < 0 THEN RightTotal(f) ELSE f.total)
        \o U32Bytes(IF f.header_len < 0 THEN Len(hb) ELSE f.header_len)
        \o PreludeCrc \o hb \o f.payload \o TrailingCrc

StringHeader(name, value) == [name |-> name, type |-> 7, value |-> value]

\* [[false],[]]
DocEmpty == <<91,91,102,97,108,115,101,93,44,91,93,93>>
\* [[false],[[5,"","","c",6]]]
DocOne == <<91,91,102,97,108,115,101,93,44,91,91,53,44,34,34,44,34,34,44,34,99,34,44,54,93,93,93>>
\* [[false],[[1,"","","a",2],[3,"","","b",4]]]
DocTwo == <<91,91,102,97,108,115,101,93,44,91,91,49,44,34,34,44,34,34,44,34,97,34,44,50,93,44,91,51,44,34,34,44,34,34,44,34,98,34,44,52,93,93,93>>
\* [[false],[[9223372036854775808,"","","c",6]]]: an ingestion time of 2^63
DocBig == <<91,91,102,97,108,115,101,93,44,91,91,57,50,50,51,51,55,50,48,51,54,56,53,52,55,55,53,56,48,56,44,34,34,44,34,34,44,34,99,34,44,54,93,93,93>>

Frame(headers, payload) ==
    [total |-> -1, header_len |-> -1, headers |-> headers, payload |-> payload]

\* the frames the server of this model can send, by name
FrameOf(name) ==
    CASE name = "SU2" -> Frame(<<StringHeader(EVENT_TYPE, SESSION_UPDATE)>>, DocTwo)
      [] name = "SU0" -> Frame(<<StringHeader(EVENT_TYPE, SESSION_UPDATE)>>, DocEmpty)
      [] name = "SUCT" -> Frame(<<StringHeader(CONTENT_TYPE, JSON_TYPE),
                                  StringHeader(EVENT_TYPE, SESSION_UPDATE)>>, DocOne)
      [] name = "SUBIG" -> Frame(<<StringHeader(EVENT_TYPE, SESSION_UPDATE)>>, DocBig)
      [] name = "OTHER" -> Frame(<<StringHeader(EVENT_TYPE, <<120>>)>>, <<123, 125>>)
      [] name = "BADCT" -> Frame(<<StringHeader(EVENT_TYPE, SESSION_UPDATE),
                                   StringHeader(CONTENT_TYPE, <<120>>)>>, DocEmpty)
      [] name = "BADTYPE" -> Frame(<<[name |-> EVENT_TYPE, type |-> 6, value |-> SESSION_UPDATE]>>,
                                   DocEmpty)
      [] name = "BADJSON" -> Frame(<<StringHeader(EVENT_TYPE, SESSION_UPDATE)>>, <<120>>)
      [] name = "BADUTF8" -> Frame(<<StringHeader(EVENT_TYPE, SESSION_UPDATE)>>, <<255>>)
      [] name = "OTHERBIN" -> Frame(<<StringHeader(EVENT_TYPE, <<120>>)>>, <<255>>)
      [] name = "SHORT" -> [total |-> 3, header_len |-> -1, headers |-> <<>>, payload |-> <<>>]
      [] name = "HDRCUT" -> [total |-> -1, header_len |-> 1,
                             headers |-> <<StringHeader(EVENT_TYPE, SESSION_UPDATE)>>,
                             payload |-> DocEmpty]
      [] name = "HDRLONG" -> [total |-> -1, header_len |-> 5,
                              headers |-> <<StringHeader(EVENT_TYPE, SESSION_UPDATE)>>,
                              payload |-> DocEmpty]
      [] name = "CTEMPTY" -> Frame(<<StringHeader(CONTENT_TYPE, <<>>),
                                     StringHeader(EVENT_TYPE, SESSION_UPDATE)>>, DocEmpty)
      [] name = "HDRNAME" -> [total |-> -1, header_len |-> 12,
                              headers |-> <<StringHeader(EVENT_TYPE, SESSION_UPDATE)>>,
                              payload |-> DocEmpty]

FrameNames == {"SU2", "SU0", "SUCT", "OTHER", "BADCT", "BADTYPE", "BADJSON", "BADUTF8", "OTHERBIN",
               "SHORT", "HDRCUT", "HDRLONG", "HDRNAME", "CTEMPTY", "SUBIG"}

\* frames that can be followed by another frame in a stream of the model
LeadNames == {"SU2", "SU0", "OTHER"}

RECURSIVE LeadSeqs(_)
LeadSeqs(n) ==
    IF n = 0 THEN {<<>>}
    ELSE LeadSeqs(n - 1) \cup {Append(s, f) : s \in {x \in LeadSeqs(n - 1) : Len(x) = n - 1}, f \in LeadNames}

Streams == {Append(s, f) : s \in LeadSeqs(MaxFrames - 1), f \in FrameNames}

RECURSIVE StreamBytes(_)
StreamBytes(s) == IF s = <<>> THEN <<>> ELSE FrameBytes(FrameOf(Head(s))) \o StreamBytes(Tail(s))

(***************************************************************************)
(* Items and errors                                                        *)
(***************************************************************************)
\* Error of live_tail_parser.rs: the variant, the bytes it carries, the text of a StreamParse
Error(tag, bytes, text) == [tag |-> tag, bytes |-> bytes, text |-> text]

NoError == Error("-", <<>>, "")

\* Option<Result<T, Error>> : None, Some(Ok(val)), Some(Err(err))
None == [kind |-> "None", val |-> <<>>, err |-> NoError]

SomeOk(v) == [kind |-> "Ok", val |-> v, err |-> NoError]

SomeErr(e) == [kind |-> "Err", val |-> <<>>, err |-> e]

(***************************************************************************)
(* EventStreamParser                                                       *)
(***************************************************************************)
\* ParserState and HeaderParserState: a state outside the header block has
\* len = 0, hstate = "-" and n = 0; BeforePreludeCRC keeps header_len in len;
\* BeforeName(n) and BeforeValue(n) keep their length in n
State(tag) == [tag |-> tag, len |-> U32Zero, hstate |-> "-", n |-> 0]

to_state(hstate, n, remain_header_len) ==
    [tag |-> "Header", len |-> remain_header_len, hstate |-> hstate, n |-> n]

\* a decoder that goes from the header length straight to the headers
BeforePreludeCRC_skipped(header_len) == to_state("BeforeNameLength", 0, header_len)

BeforePreludeCRC(header_len) == [State("BeforePreludeCRC") EXCEPT !.len = header_len]

NoBuffer == [some |-> FALSE, bytes |-> <<>>]

NoName == [some |-> FALSE, val |-> <<>>]

\* EventStreamParser::new
NewEventStreamParser ==
    [buffer |-> NoBuffer,
     state |-> State("BeforeLength"),
     remain_len |-> U32Zero,
     previous |-> <<>>,
     header_name |-> NoName,
     is_session_update |-> FALSE]

\* add that forgets the unread rest of the current chunk
add_forgets_rest(p, bytes) == [p EXCEPT !.buffer = [some |-> TRUE, bytes |-> bytes]]

\* EventStreamParser::add: the unread rest of the current chunk joins the
\* leftover queue and the new chunk becomes the current one
add(p, bytes) ==
    [p EXCEPT !.previous = IF p.buffer.some THEN p.previous \o p.buffer.bytes ELSE p.previous,
              !.buffer = [some |-> TRUE, bytes |-> bytes]]

\* the bytes buffered: leftover queue plus current chunk
Buffered(p) == Len(p.previous) + Len(p.buffer.bytes)

\* EventStreamParser::read: Some(iterator) iff len bytes are buffered
CanRead(p, len) == U32Leq(len, Buffered(p))

\* the bytes the iterator of read yields: previous chained with buffer, take(len)
ReadBytes(p, len) == Take(p.previous \o p.buffer.bytes, len.lo)

\* EventStreamParser::advance: [p, underflow]
advance(p, len) ==
    LET from_buffer == IF len.lo > Len(p.previous) THEN len.lo - Len(p.previous) ELSE 0
        rest == U32Sub(p.remain_len, len)
    IN  [p |-> [p EXCEPT !.previous = Drop(p.previous, len.lo),
                         !.buffer.bytes = Drop(p.buffer.bytes, from_buffer),
                         !.remain_len = rest.val],
         underflow |-> rest.underflow]

\* a parser that takes every value type for a string
SupportedHeaderType_any(v) == TRUE

\* the header value type this parser supports: 7, a string
SupportedHeaderType(v) == v = 7

\* a content-type assertion that is made for session updates only
ContentTypeMismatch_unchecked(name, value) == FALSE

\* read_header, BeforeValue: the content-type assertion fails
ContentTypeMismatch(name, value) == name = CONTENT_TYPE /\ value # JSON_TYPE

\* read_header, BeforeValue: the header marks a session update
IsSessionUpdateHeader(name, value) == name = EVENT_TYPE /\ value = SESSION_UPDATE

\* a decoder whose counter still counts the bytes of the total-length field
AfterLength_whole(v) == [val |-> v, underflow |-> FALSE]

\* get, BeforeLength: the remaining-length counter once the total length v is read
AfterLength(v) == U32Sub(v, U32(4))

\* a decoder that takes all that remains of the frame as the payload
MessageLen_whole(p) == [val |-> p.remain_len, underflow |-> FALSE]

\* get, Message: the length of the payload
MessageLen(p) == U32Sub(p.remain_len, U32(4))

\* get, Message: keep_going after the payload was read
MessageKeepGoing == FALSE

\* a check that leaves the leftover queue out
CrcCheck_remain_only(p) ==
    IF p.remain_len # U32Zero THEN Error("StreamParse", <<>>, "remain size has to be 0")
    ELSE NoError

\* get, BeforeCRC: the check made once the trailing checksum is consumed
CrcCheck(p) ==
    IF p.remain_len # U32Zero THEN Error("StreamParse", <<>>, "remain size has to be 0")
    ELSE IF p.previous # <<>> THEN Error("StreamParse", <<>>, "expected previous to be empty")
    ELSE NoError

\* the outcome of one pass of the loop of get: the parser after it, what the
\* pass ends with ("continue": keep_going, "pending": get returns Ok(None),
\* "some": get returns Ok(Some(val)), "err": get returns Err(err)), and
\* whether a subtraction of the pass underflowed
Pass(p, out, val, err, underflow) ==
    [p |-> p, out |-> out, val |-> val, err |-> err, underflow |-> underflow]

Continue(p, underflow) == Pass(p, "continue", <<>>, NoError, underflow)

\* a short read that throws the frame read so far away
Pending_resets(p) == Pass([p EXCEPT !.state = State("BeforeLength")], "pending", <<>>, NoError, FALSE)

Pending(p) == Pass(p, "pending", <<>>, NoError, FALSE)

Failed(p, err, underflow) == Pass(p, "err", <<>>, err, underflow)

\* read_header(len, state), for len # 0
read_header(p) ==
    LET len == p.state.len
        hs == p.state.hstate
        n == p.state.n
    IN  CASE hs = "BeforeNameLength" ->
                IF ~CanRead(p, U32(1)) THEN Pending(p)
                ELSE LET v == ReadBytes(p, U32(1))[1]
                         a == advance(p, U32(1))
                         l == U32Sub(len, U32(1))
                     IN  Continue([a.p EXCEPT !.state = to_state("BeforeName", v, l.val)],
                                  a.underflow \/ l.underflow)
          [] hs = "BeforeName" ->
                IF ~CanRead(p, U32(n)) THEN Pending(p)
                ELSE LET v == ReadBytes(p, U32(n))
                         a == advance(p, U32(n))
                         l == U32Sub(len, U32(n))
                     IN  IF ~from_utf8(v) THEN Failed(a.p, Error("Utf8", <<>>, ""), a.underflow)
                         ELSE Continue([a.p EXCEPT !.header_name = [some |-> TRUE, val |-> v],
                                                   !.state = to_state("BeforeValueType", 0, l.val)],
                                       a.underflow \/ l.underflow)
          [] hs = "BeforeValueType" ->
                IF ~CanRead(p, U32(1)) THEN Pending(p)
                ELSE LET v == ReadBytes(p, U32(1))[1]
                         a == advance(p, U32(1))
                         l == U32Sub(len, U32(1))
                     IN  IF ~SupportedHeaderType(v)
                         THEN Failed(a.p, Error("UnsupportedStreamHeaderType", <<v>>, ""), a.underflow)
                         ELSE Continue([a.p EXCEPT !.state = to_state("BeforeValueLenght", 0, l.val)],
                                       a.underflow \/ l.underflow)
          [] hs = "BeforeValueLenght" ->
                IF ~CanRead(p, U32(2)) THEN Pending(p)
                ELSE LET v == FoldU16(ReadBytes(p, U32(2)))
                         a == advance(p, U32(2))
                         l == U32Sub(len, U32(2))
                     IN  Continue([a.p EXCEPT !.state = to_state("BeforeValue", v, l.val)],
                                  a.underflow \/ l.underflow)
          [] hs = "BeforeValue" ->
                IF ~CanRead(p, U32(n)) THEN Pending(p)
                ELSE LET value == ReadBytes(p, U32(n))
                         a == advance(p, U32(n))
                         l == U32Sub(len, U32(n))
                         name == p.header_name.val
                         taken == [a.p EXCEPT !.header_name = NoName]
                     IN  IF ~from_utf8(value) THEN Failed(a.p, Error("Utf8", <<>>, ""), a.underflow)
                         ELSE IF ~p.header_name.some
                         THEN Failed(a.p, Error("StreamParse", <<>>, "Header name is missing"),
                                     a.underflow)
                         ELSE IF ContentTypeMismatch(name, value)
                         THEN Failed(taken, Error("UnexpectedStreamContentType", value, ""),
                                     a.underflow)
                         ELSE Continue([taken EXCEPT
                                           !.is_session_update =
                                               IF IsSessionUpdateHeader(name, value) THEN TRUE ELSE @,
                                           !.state = to_state("BeforeNameLength", 0, l.val)],
                                       a.underflow \/ l.underflow)

\* one pass of the loop of EventStreamParser::get
GetPass(p) ==
    CASE p.state.tag = "BeforeLength" ->
            LET q == [p EXCEPT !.remain_len = U32Max]
            IN  IF ~CanRead(q, U32(4)) THEN Pending(q)
                ELSE LET v == FoldU32(ReadBytes(q, U32(4)))
                         a == advance(q, U32(4))
                         r == AfterLength(v)
                     IN  Continue([a.p EXCEPT !.remain_len = r.val,
                                              !.state = State("BeforeHeaderLength")],
                                  a.underflow \/ r.underflow)
      [] p.state.tag = "BeforeHeaderLength" ->
            IF ~CanRead(p, U32(4)) THEN Pending(p)
            ELSE LET header_len == FoldU32(ReadBytes(p, U32(4)))
                     a == advance(p, U32(4))
                 IN  Continue([a.p EXCEPT !.state = BeforePreludeCRC(header_len)], a.underflow)
      [] p.state.tag = "BeforePreludeCRC" ->
            IF ~CanRead(p, U32(4)) THEN Pending(p)
            ELSE LET a == advance(p, U32(4))
                 IN  Continue([a.p EXCEPT !.state = to_state("BeforeNameLength", 0, p.state.len)],
                              a.underflow)
      [] p.state.tag = "Header" ->
            IF p.state.len = U32Zero THEN Continue([p EXCEPT !.state = State("Message")], FALSE)
            ELSE read_header(p)
      [] p.state.tag = "Message" ->
            LET len == MessageLen(p)
            IN  IF ~CanRead(p, len.val) THEN Pass(p, "pending", <<>>, NoError, len.underflow)
                ELSE LET message == ReadBytes(p, len.val)
                         a == advance(p, len.val)
                         uf == len.underflow \/ a.underflow
                         q == [a.p EXCEPT !.state = State("BeforeCRC")]
                     IN  IF ~from_utf8(message) THEN Failed(a.p, Error("Utf8", <<>>, ""), uf)
                         ELSE IF p.is_session_update THEN Pass(q, "some", message, NoError, uf)
                         ELSE IF MessageKeepGoing THEN Continue(q, uf)
                         ELSE Pass(q, "pending", <<>>, NoError, uf)
      [] p.state.tag = "BeforeCRC" ->
            IF ~CanRead(p, U32(4)) THEN Pending(p)
            ELSE LET a == advance(p, U32(4))
                     e == CrcCheck(a.p)
                 IN  IF e # NoError THEN Failed(a.p, e, a.underflow)
                     ELSE Continue([a.p EXCEPT !.state = State("BeforeLength"),
                                               !.is_session_update = FALSE],
                                   a.underflow)

(***************************************************************************)
(* The consumer's view of a record                                         *)
(***************************************************************************)
\* i64::MAX = 9223372036854775807 and 2^64 = 18446744073709551616, as digits
I64MaxDigits == <<9,2,2,3,3,7,2,0,3,6,8,5,4,7,7,5,8,0,7>>

TwoTo64Digits == <<1,8,4,4,6,7,4,4,0,7,3,7,0,9,5,5,1,6,1,6>>

PadTo(d, n) == [k \in 1..n |-> IF k <= n - Len(d) THEN 0 ELSE d[k - (n - Len(d))]]

RECURSIVE StripZeros(_)
StripZeros(d) == IF Len(d) > 1 /\ Head(d) = 0 THEN StripZeros(Tail(d)) ELSE d

\* the digits 1..i of a - b, for digit sequences of the same length, a >= b
RECURSIVE SubFrom(_, _, _, _)
SubFrom(a, b, i, borrow) ==
    IF i = 0 THEN <<>>
    ELSE LET d == a[i] - b[i] - borrow
         IN  Append(SubFrom(a, b, i - 1, IF d < 0 THEN 1 ELSE 0), (d + 10) % 10)

FitsI64(d) ==
    \/ Len(d) < Len(I64MaxDigits)
    \/ Len(d) = Len(I64MaxDigits) /\ DigitsLeq(d, I64MaxDigits)

\* `v as i64` for a u64 v: v itself up to i64::MAX, v - 2^64 above it
AsI64(v) ==
    IF FitsI64(v) THEN [neg |-> FALSE, mag |-> v]
    ELSE [neg |-> TRUE,
          mag |-> StripZeros(SubFrom(TwoTo64Digits, PadTo(v, Len(TwoTo64Digits)),
                                     Len(TwoTo64Digits), 0))]

(***************************************************************************)
(* Time arguments of the command line (log.rs, time_arg.rs)                *)
(*                                                                         *)
(* A str is here the sequence of its characters. An i64 is a sign and a    *)
(* magnitude; a magnitude or a 64-bit pattern is four 16-bit limbs, least  *)
(* significant first.                                                      *)
(***************************************************************************)
U64Zero == <<0, 0, 0, 0>>

\* 2^63, the magnitude of i64::MIN
TwoTo63 == <<0, 0, 0, 32768>>

\* x * k + c on limbs, for small k and c: the product modulo 2^64 and the carry out
RECURSIVE MulAdd(_, _, _)
MulAdd(x, k, c) ==
    IF x = <<>> THEN [val |-> <<>>, carry |-> c]
    ELSE LET t == Head(x) * k + c
             r == MulAdd(Tail(x), k, t \div Half)
         IN  [val |-> <<t % Half>> \o r.val, carry |-> r.carry]

\* a - b on limbs: the difference modulo 2^64 and the borrow out
RECURSIVE SubLimbs(_, _, _)
SubLimbs(a, b, borrow) ==
    IF a = <<>> THEN [val |-> <<>>, borrow |-> borrow]
    ELSE LET t == Head(a) - Head(b) - borrow
             r == SubLimbs(Tail(a), Tail(b), IF t < 0 THEN 1 ELSE 0)
         IN  [val |-> <<(t + Half) % Half>> \o r.val, borrow |-> r.borrow]

\* a < b for magnitudes
LimbsLess(a, b) == SubLimbs(a, b, 0).borrow = 1

\* the magnitude with the decimal digits ds, and whether it is beyond 64 bits
RECURSIVE FromDigits(_, _)
FromDigits(ds, acc) ==
    IF ds = <<>> THEN [val |-> acc, overflow |-> FALSE]
    ELSE LET m == MulAdd(acc, 10, Head(ds))
         IN  IF m.carry # 0 THEN [val |-> U64Zero, overflow |-> TRUE]
             ELSE FromDigits(Tail(ds), m.val)

\* the magnitude of a small natural
LimbsOf(n) == <<n % Half, n \div Half, 0, 0>>

I64(neg, mag) == [neg |-> neg /\ mag # U64Zero, mag |-> mag]

\* the two's-complement pattern of an i64, and the i64 of a pattern
ToPattern(x) == IF x.neg THEN SubLimbs(U64Zero, x.mag, 0).val ELSE x.mag

OfPattern(pat) ==
    IF LimbsLess(pat, TwoTo63) THEN I64(FALSE, pat)
    ELSE I64(TRUE, SubLimbs(U64Zero, pat, 0).val)

\* a < b for i64
I64Less(a, b) ==
    IF a.neg # b.neg THEN a.neg
    ELSE IF a.neg THEN LimbsLess(b.mag, a.mag)
    ELSE LimbsLess(a.mag, b.mag)

\* a Result<i64> or, with the instant in ms, a Result<DateTime<Utc>>
TimeOk(ms) == [kind |-> "Ok", ms |-> ms]

TimeErr == [kind |-> "Err", ms |-> I64(FALSE, U64Zero)]

\* the thread panicked: attempt to multiply with overflow
TimePanic == [kind |-> "panic", ms |-> I64(FALSE, U64Zero)]

DigitVal ==
    ("0" :> 0) @@ ("1" :> 1) @@ ("2" :> 2) @@ ("3" :> 3) @@ ("4" :> 4) @@
    ("5" :> 5) @@ ("6" :> 6) @@ ("7" :> 7) @@ ("8" :> 8) @@ ("9" :> 9)

IsDigits(cs) == cs # <<>> /\ \A i \in 1..Len(cs) : cs[i] \in DOMAIN DigitVal

\* candidate.parse::<i64>(): an optional sign, then decimal digits, within i64
parse_i64(s) ==
    LET signed == s # <<>> /\ Head(s) \in {"-", "+"}
        neg == s # <<>> /\ Head(s) = "-"
        ds == IF signed THEN Tail(s) ELSE s
        m == FromDigits([i \in 1..Len(ds) |-> DigitVal[ds[i]]], U64Zero)
    IN  IF ~IsDigits(ds) THEN TimeErr
        ELSE IF m.overflow THEN TimeErr
        ELSE IF neg /\ LimbsLess(TwoTo63, m.val) THEN TimeErr
        ELSE IF ~neg /\ ~LimbsLess(m.val, TwoTo63) THEN TimeErr
        ELSE TimeOk(I64(neg, m.val))

\* 946684800000: 2000-01-01 in ms
Year2000Ms == I64(FALSE, FromDigits(<<9,4,6,6,8,4,8,0,0,0,0,0>>, U64Zero).val)

\* ms * 1000 in i64: the product as a build without overflow checks leaves
\* it (modulo 2^64), and whether it is beyond i64
times_1000(x) ==
    LET m == MulAdd(x.mag, 1000, 0)
        fits == /\ m.carry = 0
                /\ IF x.neg THEN ~LimbsLess(TwoTo63, m.val) ELSE LimbsLess(m.val, TwoTo63)
    IN  [val |-> OfPattern(MulAdd(ToPattern(x), 1000, 0).val), overflow |-> ~fits]

\* log.rs, parse_as_epoch_ms; checks: the build has overflow checks
log_parse_as_epoch_ms(candidate, checks) ==
    LET ms == parse_i64(candidate)
        p == times_1000(ms.ms)
    IN  IF ms.kind = "Err" THEN TimeErr
        ELSE IF I64Less(Year2000Ms, ms.ms) THEN TimeOk(ms.ms)
        ELSE IF p.overflow /\ checks THEN TimePanic
        ELSE TimeOk(p.val)

\* the seconds a unit of duration_str stands for
UnitSecs == ("d" :> 86400) @@ ("h" :> 3600) @@ ("m" :> 60) @@ ("s" :> 1)

\* the seconds of a run of numbers with units (1m30s), -1 if s is none; num
\* is the number being read, -1 between two terms
RECURSIVE DurationSecs(_, _, _)
DurationSecs(s, num, total) ==
    IF s = <<>> THEN (IF num = -1 THEN total ELSE -1)
    ELSE IF Head(s) \in DOMAIN DigitVal
    THEN DurationSecs(Tail(s), (IF num = -1 THEN 0 ELSE num) * 10 + DigitVal[Head(s)], total)
    ELSE IF Head(s) \in DOMAIN UnitSecs /\ num # -1
    THEN DurationSecs(Tail(s), -1, total + num * UnitSecs[Head(s)])
    ELSE -1

\* duration_str::parse, in seconds, for numbers with the units d, h, m, s;
\* -1: Err. What the crate makes of a number without a unit is not in this
\* repository; such a number reaches it only when it is beyond i64 or beyond
\* the range of DateTime, and is then beyond the range of TimeDelta as well
duration_str_parse(s) ==
    IF s = <<>> \/ IsDigits(s) THEN -1 ELSE DurationSecs(s, -1, 0)

\* a - b for instants in ms, b >= 0 small
MsMinus(a, b) == OfPattern(SubLimbs(ToPattern(a), LimbsOf(b), 0).val)

\* log.rs, parse_offset_or_duration, for arguments that are numbers or
\* durations: the epoch reading is tried first, then the duration (the time
\* of day, zoned time and RFC 3339 readings that follow take none of them)
parse_offset_or_duration(value, unix_now, checks) ==
    LET epoch == log_parse_as_epoch_ms(value, checks)
        o == duration_str_parse(value)
    IN  IF epoch.kind # "Err" THEN epoch
        ELSE IF o # -1
        THEN TimeOk(IF I64Less(unix_now, I64(FALSE, LimbsOf(o * 1000))) THEN I64(FALSE, U64Zero)
                    ELSE MsMinus(unix_now, o * 1000))
        ELSE TimeErr

\* the seconds chrono's DateTime<Utc> reaches: -262143-01-01 to +262142-12-31
ChronoMinSecs == I64(TRUE, FromDigits(<<8,3,3,4,6,0,1,2,2,8,8,0,0>>, U64Zero).val)

ChronoMaxSecs == I64(FALSE, FromDigits(<<8,2,1,0,2,6,6,8,7,6,7,9,9>>, U64Zero).val)

ChronoMaxMs == I64(FALSE, FromDigits(<<8,2,1,0,2,6,6,8,7,6,7,9,9,9,9,9>>, U64Zero).val)

\* time_arg.rs, parse_as_epoch_ms, as the instant in ms
time_arg_parse_as_epoch_ms(candidate) ==
    LET ms == parse_i64(candidate)
    IN  IF ms.kind = "Err" THEN TimeErr
        ELSE IF I64Less(Year2000Ms, ms.ms)
        THEN (IF I64Less(ChronoMaxMs, ms.ms) THEN TimeErr ELSE TimeOk(ms.ms))
        ELSE IF I64Less(ms.ms, ChronoMinSecs) \/ I64Less(ChronoMaxSecs, ms.ms) THEN TimeErr
        ELSE TimeOk(times_1000(ms.ms).val)

\* time_arg.rs, parse_as_duration_offset
parse_as_duration_offset(value, now) ==
    LET duration == duration_str_parse(value)
    IN  IF duration = -1 THEN TimeErr ELSE TimeOk(MsMinus(now, duration * 1000))

\* time_arg.rs, parse_relative_to, for arguments that are numbers or durations
parse_relative_to(value, now) ==
    LET epoch == time_arg_parse_as_epoch_ms(value)
    IN  IF epoch.kind = "Ok" THEN epoch ELSE parse_as_duration_offset(value, now)

\* the numbers given as time arguments: their digits
ArgNumbers ==
    {<<"0">>, <<"5">>, <<"1","0","0">>,
     <<"1","7","0","0","0","0","0","0","0","0">>,
     <<"1","7","0","0","0","0","0","0","0","0","0","0","0">>,
     <<"9","4","6","6","8","4","7","9","9","9","9","9">>,
     <<"9","4","6","6","8","4","8","0","0","0","0","0">>,
     <<"9","4","6","6","8","4","8","0","0","0","0","1">>,
     <<"9","2","2","3","3","7","2","0","3","6","8","5","4","7","7","5">>,
     <<"9","2","2","3","3","7","2","0","3","6","8","5","4","7","7","6">>,
     <<"9","2","2","3","3","7","2","0","3","6","8","5","4","7","7","5","8","0","7">>,
     <<"9","2","2","3","3","7","2","0","3","6","8","5","4","7","7","5","8","0","8">>}

\* the time arguments of the model: numbers, bare and signed, and durations
TimeArgs ==
    ArgNumbers \cup {<<"-">> \o n : n \in ArgNumbers} \cup {<<"+">> \o n : n \in ArgNumbers}
        \cup {<<"1","0","m">>, <<"1","m","3","0","s">>, <<"2","h">>, <<"1","d">>}

\* the readings of the clock, in ms: 2023-11-14T22:13:20Z and 2024-01-02T03:04:05.678Z
TimeClock ==
    {I64(FALSE, FromDigits(<<1,7,0,0,0,0,0,0,0,0,0,0,0>>, U64Zero).val),
     I64(FALSE, FromDigits(<<1,7,0,4,1,6,4,6,4,5,6,7,8>>, U64Zero).val)}

NoTimeArg == [value |-> <<>>, now |-> I64(FALSE, U64Zero), by |-> "-", out |-> [kind |-> "-", ms |-> I64(FALSE, U64Zero)]]

(***************************************************************************)
(* The command loop of main (main.rs)                                      *)
(*                                                                         *)
(* A command line is the sequence of its words after the program name;     *)
(* options are left out. The subcommands of the model are groups, which    *)
(* takes no positional word, and streams, which takes one; every other     *)
(* first word is an external subcommand, which main resolves as an alias.  *)
(***************************************************************************)
Positionals == [groups |-> 0, streams |-> 1]

Builtins == DOMAIN Positionals

\* Cli::try_parse_from on the words after the program name
try_parse_from(line) ==
    IF line = <<>> THEN [ok |-> FALSE, command |-> "-"]
    ELSE IF Head(line) \in Builtins
    THEN IF Len(line) - 1 = Positionals[Head(line)]
         THEN [ok |-> TRUE, command |-> Head(line)]
         ELSE [ok |-> FALSE, command |-> "-"]
    ELSE [ok |-> TRUE, command |-> "External"]

\* the names the alias table of the configuration can hold
AliasNames == {"a", "b"}

NoAlias == [some |-> FALSE, words |-> <<>>]

\* the arrays of strings an alias can stand for
Replacements == {<<>>, <<"groups">>, <<"streams">>, <<"streams", "x">>, <<"a">>, <<"b">>}

AliasTables == [AliasNames -> {NoAlias} \cup {[some |-> TRUE, words |-> r] : r \in Replacements}]

\* config.get("alias") ... t.get(v[0]) ... as_array()
replacement(alias, name) == IF name \in DOMAIN alias THEN alias[name] ELSE NoAlias

\* build_iter without the program name: the replacement, then v[1..]
build_iter(words, v) == words \o Tail(v)

\* the command lines Cli::parse accepted when main starts
CommandLines == {<<"groups">>, <<"streams", "x">>, <<"a">>, <<"b">>, <<"a", "x">>, <<"c">>}

\* expansions is the number of aliases resolved so far, modulo 2
NoCli == [alias |-> [n \in AliasNames |-> NoAlias], args |-> <<>>, command |-> "-", expansions |-> 0,
          pc |-> "-", result |-> "-"]

(***************************************************************************)
(* Historical retrieval (log.rs): print_all_events and print_filter_events *)
(***************************************************************************)
\* a response of GetLogEvents or FilterLogEvents: an error, or the number of
\* events of the page (-1 if the field is absent) and whether a token for the
\* next page came with it
Responses == [err : BOOLEAN, events : {-1, 0, 1, 2}, token : BOOLEAN]

NoResponse == [err |-> FALSE, events |-> -1, token |-> FALSE]

NoPager == [by |-> "-", res |-> NoResponse, left |-> 0, requests |-> 0, answers |-> <<>>, pc |-> "-", result |-> "-"]

(***************************************************************************)
(* The signed request of request_and_process                               *)
(*                                                                         *)
(* A string is here a sequence of atoms: an atom is a run of characters    *)
(* (lit) or a digest, which is known only by what was hashed (arg) and     *)
(* under which key. format! and push are concatenation.                    *)
(***************************************************************************)
Lit(s) == [lit |-> s, key |-> <<>>, arg |-> <<>>]

\* the string made of the runs of characters ss
Str(ss) == [i \in 1..Len(ss) |-> Lit(ss[i])]

NoString == [some |-> FALSE, val |-> <<>>]

SomeString(s) == [some |-> TRUE, val |-> s]

\* format!("{:x}", Sha256::digest(content))
Sha256Hex(content) == <<[lit |-> "sha256-hex", key |-> <<>>, arg |-> content]>>

\* sign: the bytes of HMAC-SHA256(key, content)
sign(key, content) == <<[lit |-> "hmac-sha256", key |-> key, arg |-> content]>>

\* sign_to_str: the same in lowercase hex
sign_to_str(key, content) == <<[lit |-> "hex", key |-> <<>>, arg |-> sign(key, content)]>>

\* what the arguments of request_and_process are drawn from
AccessKeyIds == {Str(<<"AKIAEXAMPLE">>)}

SecretKeys == {Str(<<"secret">>)}

SessionTokens == {NoString, SomeString(Str(<<"token">>)), SomeString(Str(<<"to", "\n", "x-evil", ":", "ken">>))}

Regions == {Str(<<"us-east-1">>), Str(<<"eu-west-1">>)}

GroupArns == {Str(<<"arn:aws:logs:us-east-1:1:log-group:g">>)}

LogStreams == {NoString, SomeString(Str(<<"s">>))}

Filters == {NoString, SomeString(<<>>), SomeString(Str(<<"\"", "ERROR", "\"">>))}

\* the readings of chrono::Utc::now()
Clock == {[day |-> "20240102", time |-> "235959"], [day |-> "20240103", time |-> "000000"]}

\* serde_json's escaping inside a JSON string
JsonEscape(s) ==
    [i \in 1..Len(s) |-> IF s[i].lit = "\"" THEN Lit("\\\"")
                          ELSE IF s[i].lit = "\n" THEN Lit("\\n")
                          ELSE s[i]]

JsonString(s) == Str(<<"\"">>) \o JsonEscape(s) \o Str(<<"\"">>)

\* filter.unwrap_or_default()
FilterPattern(filter) == IF filter.some THEN filter.val ELSE <<>>

\* serde_json::to_string(&LiveTailRequest {..}): camelCase names, logStreamNames skipped when empty
body(group_arn, log_stream, filter) ==
    Str(<<"{", "\"logEventFilterPattern\"", ":">>) \o JsonString(FilterPattern(filter))
    \o Str(<<",", "\"logGroupIdentifiers\"", ":", "[">>) \o JsonString(group_arn) \o Str(<<"]">>)
    \o (IF log_stream.some
        THEN Str(<<",", "\"logStreamNames\"", ":", "[">>) \o JsonString(log_stream.val) \o Str(<<"]">>)
        ELSE <<>>)
    \o Str(<<"}">>)

\* now.format("%Y%m%d"), now.format("%Y%m%dT%H%M%SZ")
date(now) == Str(<<now.day>>)

now_string(now) == Str(<<now.day, "T", now.time, "Z">>)

\* the four chained calls of sign
final_signing_key(credentials, now, region) ==
    sign(sign(sign(sign(Str(<<"AWS4">>) \o credentials.secret_access_key, date(now)),
                   region),
              Str(<<"logs">>)),
         Str(<<"aws4_request">>))

\* a signer that never signs the session token
TokenSigned_never(credentials) == FALSE

\* whether x-amz-security-token is among the signed headers
TokenSigned(credentials) == credentials.session_token.some

sign_headers(credentials) ==
    IF TokenSigned(credentials)
    THEN Str(<<"content-type", ";", "host", ";", "x-amz-date", ";", "x-amz-security-token", ";",
               "x-amz-target">>)
    ELSE Str(<<"content-type", ";", "host", ";", "x-amz-date", ";", "x-amz-target">>)

token_header(credentials) ==
    IF TokenSigned(credentials)
    THEN Str(<<"\n", "x-amz-security-token", ":">>) \o credentials.session_token.val
    ELSE <<>>

request_to_sign(credentials, now, region) ==
    Str(<<"POST", "\n", "/", "\n", "\n",
          "content-type", ":", "application/x-amz-json-1.1", "\n",
          "host", ":", "streaming-logs.">>) \o region \o Str(<<".amazonaws.com", "\n",
          "x-amz-date", ":">>) \o now_string(now) \o token_header(credentials) \o Str(<<"\n",
          "x-amz-target", ":", "Logs_20140328.StartLiveTail", "\n",
          "\n">>) \o sign_headers(credentials) \o Str(<<"\n">>)

\* the digest of the canonical request followed by the digest of the body
request_hash(credentials, now, region, b) ==
    Sha256Hex(request_to_sign(credentials, now, region) \o Sha256Hex(b))

to_sign(credentials, now, region, b) ==
    Str(<<"AWS4-HMAC-SHA256", "\n">>) \o now_string(now) \o Str(<<"\n">>) \o date(now)
    \o Str(<<"/">>) \o region \o Str(<<"/logs/aws4_request", "\n">>)
    \o request_hash(credentials, now, region, b)

final_signature(key, credentials, now, region, b) ==
    sign_to_str(key, to_sign(credentials, now, region, b))

\* a Credential that says whether a filter was given
Credential_with_filter(r) ==
    r.credentials.access_key_id \o (IF r.filter.some THEN Str(<<"+filter">>) ELSE <<>>)

\* the access key id named in the Authorization header of request r
Credential(r) == r.credentials.access_key_id

\* the value of the Authorization header of request r
auth(r) ==
    Str(<<"AWS4-HMAC-SHA256 Credential=">>) \o Credential(r) \o Str(<<"/">>) \o date(r.now)
    \o Str(<<"/">>) \o r.region \o Str(<<"/logs/aws4_request, SignedHeaders=">>)
    \o sign_headers(r.credentials) \o Str(<<", Signature=">>) \o r.final_signature

\* a header check that lets every value pass
ValidHeaderValue_any(s) == TRUE

\* HeaderValue::from_str: no control character in the value
ValidHeaderValue(s) == \A i \in 1..Len(s) : s[i].lit # "\n"

HttpHeader(name, value) == [name |-> name, value |-> value]

\* the header map of request r, in the order of the calls of append
headers(r) ==
    <<HttpHeader("Content-Type", Str(<<"application/x-amz-json-1.1">>)),
      HttpHeader("User-Agent", Str(<<"cw-axe/", "version">>)),
      HttpHeader("X-Amz-Target", Str(<<"Logs_20140328.StartLiveTail">>)),
      HttpHeader("X-Amz-Date", now_string(r.now))>>
    \o (IF r.credentials.session_token.some
        THEN <<HttpHeader("X-Amz-Security-Token", r.credentials.session_token.val)>>
        ELSE <<>>)
    \o <<HttpHeader("Authorization", auth(r))>>

\* the locals of request_and_process at its start
NewRequest(credentials, region, group_arn, log_stream, filter) ==
    [credentials |-> credentials, region |-> region, group_arn |-> group_arn,
     log_stream |-> log_stream, filter |-> filter,
     body |-> <<>>, now |-> [day |-> "", time |-> ""], final_signing_key |-> <<>>,
     request_to_sign |-> <<>>, final_signature |-> <<>>, headers |-> <<>>,
     posts |-> <<>>,                \* the requests sent
     responded |-> FALSE,           \* send() has returned a response
     content_type |-> NoString,     \* the Content-Type of the response
     error |-> <<>>]                \* the text an error carries

Requests ==
    {NewRequest([access_key_id |-> a, secret_access_key |-> k, session_token |-> t], r, g, s, f) :
        a \in AccessKeyIds, k \in SecretKeys, t \in SessionTokens, r \in Regions,
        g \in GroupArns, s \in LogStreams, f \in Filters}

\* the locals once the body is serialized, the signing key derived at the
\* reading now of the clock, the request signed, the headers built
WithBody(r) == [r EXCEPT !.body = body(r.group_arn, r.log_stream, r.filter)]

WithKey(r, now) ==
    [r EXCEPT !.now = now, !.final_signing_key = final_signing_key(r.credentials, now, r.region)]

WithSignature(r) ==
    [r EXCEPT !.request_to_sign = request_to_sign(r.credentials, r.now, r.region),
              !.final_signature = final_signature(r.final_signing_key, r.credentials, r.now,
                                                  r.region, r.body)]

WithHeaders(r) == [r EXCEPT !.headers = headers(r)]

\* the POST of request r
HttpRequest(r) ==
    [url |-> Str(<<"https://streaming-logs.">>) \o r.region \o Str(<<".amazonaws.com">>),
     headers |-> r.headers, body |-> r.body]

HTTP_JSON == Str(<<"application/x-amz-json-1.1">>)

EVENTSTREAM == Str(<<"application/vnd.amazon.eventstream">>)

\* the Content-Type headers a response can have, the body of an error response
ResponseContentTypes ==
    {NoString, SomeString(HTTP_JSON), SomeString(EVENTSTREAM), SomeString(Str(<<"text/html">>))}

ErrorBody == Str(<<"{\"__type\":\"AccessDeniedException\"}">>)

\* the request of a call that has got its event-stream response
Established ==
    LET r == WithHeaders(WithSignature(WithKey(WithBody(
                 NewRequest([access_key_id |-> Str(<<"AKIAEXAMPLE">>),
                             secret_access_key |-> Str(<<"secret">>),
                             session_token |-> NoString],
                            Str(<<"us-east-1">>), Str(<<"arn:aws:logs:us-east-1:1:log-group:g">>),
                            NoString, NoString)),
                 [day |-> "20240102", time |-> "235959"])))
    IN  [r EXCEPT !.posts = <<HttpRequest(r)>>, !.responded = TRUE,
                  !.content_type = SomeString(EVENTSTREAM)]

(***************************************************************************)
(* The run: request_and_process from the construction of the parsers on    *)
(***************************************************************************)
\* what the run has shown so far
ObsInit ==
    [yielded |-> <<>>,      \* the Some(..) items EventStreamParser returned, in order
     esp_ended |-> FALSE,   \* EventStreamParser returned None
     records |-> <<>>]      \* the records MessageParser returned, in order

Init ==
    /\ stream \in Streams
    /\ wire = StreamBytes(stream)
    /\ esp = NewEventStreamParser
    /\ mp = [parsed |-> <<>>]
    /\ pc = "mp_poll"
    /\ item = None
    /\ result = "-"
    /\ calls = <<>>
    /\ obs = ObsInit
    /\ req = Established
    /\ targ = NoTimeArg
    /\ cli = NoCli
    /\ pager = NoPager

\* the lengths a chunk of the response body can have
ChunkLens == (1..Min(MaxChunk, Len(wire))) \cup {Len(wire)}

\* a poll_next that never looks into the FIFO
HasParsed_never(m) == FALSE

\* MessageParser::poll_next: pop_front gives a record
HasParsed(m) == m.parsed # <<>>

\* MessageParser::poll_next, the FIFO holds a record: pop it and return it
MessagePop ==
    /\ pc = "mp_poll"
    /\ HasParsed(mp)
    /\ item' = SomeOk(<<Head(mp.parsed)>>)
    /\ mp' = [mp EXCEPT !.parsed = Tail(@)]
    /\ obs' = [obs EXCEPT !.records = Append(@, Head(mp.parsed))]
    /\ pc' = "drv_recv"
    /\ UNCHANGED <<cli, pager, targ, stream, wire, esp, result, calls, req>>

\* MessageParser::poll_next, the FIFO is empty: poll the EventStreamParser,
\* whose poll_next starts with a call of get
MessagePoll ==
    /\ pc = "mp_poll"
    /\ ~HasParsed(mp)
    /\ pc' = "esp_get"
    /\ UNCHANGED <<cli, pager, targ, stream, wire, esp, mp, item, result, calls, obs, req>>

\* one pass of the loop of get; an underflowing subtraction wraps here, as in
\* a build without overflow checks
GetStep ==
    /\ pc = "esp_get"
    /\ LET r == GetPass(esp)
       IN  /\ esp' = r.p
           /\ CASE r.out = "continue" -> UNCHANGED <<pc, item, obs>>
                [] r.out = "pending" -> pc' = "esp_input" /\ UNCHANGED <<item, obs>>
                [] r.out = "some" ->
                       /\ pc' = "mp_recv"
                       /\ item' = SomeOk(r.val)
                       /\ obs' = [obs EXCEPT !.yielded = Append(@, SomeOk(r.val))]
                [] r.out = "err" ->
                       /\ pc' = "mp_recv"
                       /\ item' = SomeErr(r.err)
                       /\ obs' = [obs EXCEPT !.yielded = Append(@, SomeErr(r.err))]
    /\ UNCHANGED <<cli, pager, targ, stream, wire, mp, result, calls, req>>

\* the same pass in a build with overflow checks: an underflowing
\* subtraction panics and the call never returns
GetPanic ==
    /\ pc = "esp_get"
    /\ GetPass(esp).underflow
    /\ pc' = "panicked"
    /\ UNCHANGED <<cli, pager, targ, stream, wire, esp, mp, item, result, calls, obs, req>>

\* EventStreamParser::poll_next, the input yields a chunk: add it and call get again
InputChunk ==
    /\ pc = "esp_input"
    /\ wire # <<>>
    /\ \E n \in ChunkLens :
          /\ esp' = add(esp, Take(wire, n))
          /\ wire' = Drop(wire, n)
    /\ pc' = "esp_get"
    /\ UNCHANGED <<cli, pager, targ, stream, mp, item, result, calls, obs, req>>

\* EventStreamParser::poll_next, the input yields a transport error
InputError ==
    /\ pc = "esp_input"
    /\ item' = SomeErr(Error("Rewqest", <<>>, ""))
    /\ obs' = [obs EXCEPT !.yielded = Append(@, item')]
    /\ pc' = "mp_recv"
    /\ UNCHANGED <<cli, pager, targ, stream, wire, esp, mp, result, calls, req>>

\* a decoder that takes an end of input inside a frame for an error
EndItem_strict(p) ==
    IF p.state.tag = "BeforeLength" /\ Buffered(p) = 0 THEN None
    ELSE SomeErr(Error("StreamParse", <<>>, "unexpected end of input"))

\* EventStreamParser::poll_next: what it returns when the input returns None
EndItem(p) == None

\* EventStreamParser::poll_next, the input ends (the body is complete, or the
\* connection is closed early and the rest of the wire is never delivered)
InputEnd ==
    /\ pc = "esp_input"
    /\ item' = EndItem(esp)
    /\ obs' = [obs EXCEPT !.esp_ended = TRUE]
    /\ pc' = "mp_recv"
    /\ UNCHANGED <<cli, pager, targ, stream, wire, esp, mp, result, calls, req>>

\* a FIFO that loses the first record of every envelope
Parsed_drops_first(update) ==
    IF update.session_results = <<>> THEN <<>> ELSE Tail(update.session_results)

\* MessageParser::poll_next, the FIFO after a payload has been parsed
Parsed(update) == update.session_results

\* MessageParser::poll_next, on the item of the EventStreamParser
MessageRecv ==
    /\ pc = "mp_recv"
    /\ IF item.kind = "Ok"
       THEN LET update == from_str(item.val)
            IN  IF ~update.ok
                THEN /\ item' = SomeErr(Error("Json", <<>>, ""))
                     /\ pc' = "drv_recv"
                     /\ UNCHANGED <<mp, obs>>
                ELSE /\ mp' = [mp EXCEPT !.parsed = Parsed(update)]
                     /\ pc' = "mp_poll"
                     /\ UNCHANGED <<item, obs>>
       ELSE /\ pc' = "drv_recv"
            /\ UNCHANGED <<item, mp, obs>>
    /\ UNCHANGED <<cli, pager, targ, stream, wire, esp, result, calls, req>>

\* request_and_process: the stream of records ended, return Ok(())
DriverEnd ==
    /\ pc = "drv_recv"
    /\ item.kind = "None"
    /\ result' = "Ok"
    /\ pc' = "done"
    /\ UNCHANGED <<cli, pager, targ, stream, wire, esp, mp, item, calls, obs, req>>

\* a loop that skips an error item and pulls again
OnError_continue == "continue"

\* what request_and_process does on an error item: "return" (the ? operator) or "continue"
OnError == "return"

\* request_and_process: event.map_err(Error::Parser)?
DriverError ==
    /\ pc = "drv_recv"
    /\ item.kind = "Err"
    /\ IF OnError = "return"
       THEN result' = item.err.tag /\ pc' = "done"
       ELSE pc' = "mp_poll" /\ UNCHANGED result
    /\ UNCHANGED <<cli, pager, targ, stream, wire, esp, mp, item, calls, obs, req>>

\* a loop that ignores the answer of the consumer
GoesOn_always(keep) == TRUE

\* request_and_process: whether the loop goes on after the consumer returned keep
GoesOn(keep) == keep

\* request_and_process: hand the record to the consumer, which answers keep
DriverConsume ==
    /\ pc = "drv_recv"
    /\ item.kind = "Ok"
    /\ \E keep \in BOOLEAN :
          /\ LET message == item.val[1]
             IN  calls' = Append(calls, [ingestion_time |-> AsI64(message.ingestion_time),
                                         message |-> message.message,
                                         keep |-> keep])
          /\ IF GoesOn(keep)
             THEN pc' = "mp_poll" /\ UNCHANGED result
             ELSE pc' = "done" /\ result' = "Ok"
    /\ UNCHANGED <<cli, pager, targ, stream, wire, esp, mp, item, obs, req>>

Next ==
    \/ MessagePop
    \/ MessagePoll
    \/ GetStep
    \/ GetPanic
    \/ InputChunk
    \/ InputError
    \/ InputEnd
    \/ MessageRecv
    \/ DriverEnd
    \/ DriverError
    \/ DriverConsume

Spec == Init /\ [][Next]_vars

(***************************************************************************)
(* The frame decoder alone, pulled item by item by its caller, as in       *)
(* test::event_stream_parser                                               *)
(***************************************************************************)
DecoderInit ==
    /\ stream \in Streams
    /\ wire = StreamBytes(stream)
    /\ esp = NewEventStreamParser
    /\ mp = [parsed |-> <<>>]
    /\ pc = "esp_get"
    /\ item = None
    /\ result = "-"
    /\ calls = <<>>
    /\ obs = ObsInit
    /\ req = Established
    /\ targ = NoTimeArg
    /\ cli = NoCli
    /\ pager = NoPager

\* parser.next().await once more, after an item of the decoder itself (what
\* the input does once it has failed is not the decoder's)
NextItem ==
    /\ pc = "mp_recv"
    /\ item.kind # "None"
    /\ Len(obs.yielded) < MaxItems
    /\ item.err.tag # "Rewqest"
    /\ pc' = "esp_get"
    /\ UNCHANGED <<cli, pager, targ, stream, wire, esp, mp, item, result, calls, obs, req>>

DecoderNext ==
    \/ GetStep
    \/ GetPanic
    \/ InputChunk
    \/ InputError
    \/ InputEnd
    \/ NextItem

DecoderSpec == DecoderInit /\ [][DecoderNext]_vars

(***************************************************************************)
(* The record decoder on top of the frame decoder, pulled record by record *)
(* by its caller, as in test::event_stream_and_message                     *)
(***************************************************************************)
\* the event streams of this specification
RecordStreams == {<<"BADJSON", "SU2">>, <<"SU2", "BADJSON">>, <<"SU0", "SU2">>, <<"SHORT">>}

RecordInit ==
    /\ stream \in RecordStreams
    /\ wire = StreamBytes(stream)
    /\ esp = NewEventStreamParser
    /\ mp = [parsed |-> <<>>]
    /\ pc = "mp_poll"
    /\ item = None
    /\ result = "-"
    /\ calls = <<>>
    /\ obs = ObsInit
    /\ req = Established
    /\ targ = NoTimeArg
    /\ cli = NoCli
    /\ pager = NoPager

\* parser.next().await once more, after a record or an error item that is not
\* the input's
NextRecord ==
    /\ pc = "drv_recv"
    /\ item.kind # "None"
    /\ item.err.tag # "Rewqest"
    /\ pc' = "mp_poll"
    /\ UNCHANGED <<cli, pager, targ, stream, wire, esp, mp, item, result, calls, obs, req>>

RecordNext ==
    \/ MessagePop
    \/ MessagePoll
    \/ GetStep
    \/ GetPanic
    \/ InputChunk
    \/ InputError
    \/ InputEnd
    \/ MessageRecv
    \/ NextRecord

RecordSpec == RecordInit /\ [][RecordNext]_vars

(***************************************************************************)
(* The whole call of request_and_process: the request, then the stream     *)
(***************************************************************************)
\* the event streams a response carries in this specification
ReqStreams == {<<"SU2">>, <<"SHORT">>}

RequestInit ==
    /\ req \in Requests
    /\ targ = NoTimeArg
    /\ cli = NoCli
    /\ pager = NoPager
    /\ stream = <<>>
    /\ wire = <<>>
    /\ esp = NewEventStreamParser
    /\ mp = [parsed |-> <<>>]
    /\ pc = "build_body"
    /\ item = None
    /\ result = "-"
    /\ calls = <<>>
    /\ obs = ObsInit

\* serde_json::to_string(..).map_err(Error::Serialize)?  The Result of the
\* library call is taken as it is typed: Ok or Err.
BuildBody ==
    /\ pc = "build_body"
    /\ \E ok \in BOOLEAN :
          IF ok
          THEN req' = WithBody(req) /\ pc' = "derive_key" /\ UNCHANGED result
          ELSE result' = "Serialize" /\ pc' = "done" /\ UNCHANGED req
    /\ UNCHANGED <<cli, pager, targ, stream, wire, esp, mp, item, calls, obs>>

\* Utc::now() and the four calls of sign(..)?, each Ok or Err(Error::Signing)
DeriveKey ==
    /\ pc = "derive_key"
    /\ \E now \in Clock, ok \in BOOLEAN :
          IF ok
          THEN req' = WithKey(req, now) /\ pc' = "sign_request" /\ UNCHANGED result
          ELSE result' = "Signing" /\ pc' = "done" /\ req' = [req EXCEPT !.now = now]
    /\ UNCHANGED <<cli, pager, targ, stream, wire, esp, mp, item, calls, obs>>

\* the canonical request, its digest, the string to sign and sign_to_str(..)?
SignRequest ==
    /\ pc = "sign_request"
    /\ \E ok \in BOOLEAN :
          IF ok
          THEN req' = WithSignature(req) /\ pc' = "build_headers" /\ UNCHANGED result
          ELSE /\ result' = "Signing"
               /\ pc' = "done"
               /\ req' = [req EXCEPT !.request_to_sign =
                                         request_to_sign(req.credentials, req.now, req.region)]
    /\ UNCHANGED <<cli, pager, targ, stream, wire, esp, mp, item, calls, obs>>

\* the header map: HeaderValue::from_str(..).map_err(|_| Error::HttpHeader)?
\* on each value that is no static string
BuildHeaders ==
    /\ pc = "build_headers"
    /\ IF \A i \in 1..Len(headers(req)) : ValidHeaderValue(headers(req)[i].value)
       THEN req' = WithHeaders(req) /\ pc' = "post" /\ UNCHANGED result
       ELSE result' = "HttpHeader" /\ pc' = "done" /\ UNCHANGED req
    /\ UNCHANGED <<cli, pager, targ, stream, wire, esp, mp, item, calls, obs>>

\* a driver that sends the request again when the transport fails
OnSendError_retry == "retry"

\* what request_and_process does when send() fails: "return" (the ? operator) or "retry"
OnSendError == "return"

\* reqwest::Client::new().post(..).headers(..).body(..).send().await.map_err(Error::Http)?
Post ==
    /\ pc = "post"
    /\ \E ok \in BOOLEAN, ct \in ResponseContentTypes :
          IF ok
          THEN /\ req' = [req EXCEPT !.posts = Append(@, HttpRequest(req)), !.responded = TRUE,
                                      !.content_type = ct]
               /\ pc' = "dispatch"
               /\ UNCHANGED result
          ELSE /\ req' = [req EXCEPT !.posts = Append(@, HttpRequest(req))]
               /\ ct = NoString
               /\ IF OnSendError = "return"
                  THEN result' = "Http" /\ pc' = "done"
                  ELSE pc' = "post" /\ UNCHANGED result
    /\ UNCHANGED <<cli, pager, targ, stream, wire, esp, mp, item, calls, obs>>

\* a driver that takes a response without Content-Type for an event stream
ResponseKind_lenient(content_type) ==
    IF content_type.some /\ content_type.val = HTTP_JSON THEN "api"
    ELSE IF content_type.some /\ content_type.val # EVENTSTREAM THEN "unexpected"
    ELSE "stream"

\* the two tests of request_and_process on the Content-Type of the response
ResponseKind(content_type) ==
    IF content_type.some /\ content_type.val = HTTP_JSON THEN "api"
    ELSE IF ~content_type.some \/ content_type.val # EVENTSTREAM THEN "unexpected"
    ELSE "stream"

\* format!("{content_type:?}")
DebugOption(content_type) ==
    IF content_type.some THEN Str(<<"Some(", "\"">>) \o content_type.val \o Str(<<"\"", ")">>)
    ELSE Str(<<"None">>)

\* request_and_process from the response headers to the construction of the
\* parsers; response.text().await.map_err(Error::Http)? reads the error body
Dispatch ==
    /\ pc = "dispatch"
    /\ CASE ResponseKind(req.content_type) = "api" ->
              /\ \E ok \in BOOLEAN :
                    IF ok THEN result' = "Api" /\ req' = [req EXCEPT !.error = ErrorBody]
                    ELSE result' = "Http" /\ UNCHANGED req
              /\ pc' = "done"
              /\ UNCHANGED <<stream, wire, esp, mp>>
         [] ResponseKind(req.content_type) = "unexpected" ->
              /\ result' = "UnexpectedHttpContentType"
              /\ req' = [req EXCEPT !.error = DebugOption(req.content_type)]
              /\ pc' = "done"
              /\ UNCHANGED <<stream, wire, esp, mp>>
         [] ResponseKind(req.content_type) = "stream" ->
              /\ stream' \in ReqStreams
              /\ wire' = StreamBytes(stream')
              /\ esp' = NewEventStreamParser
              /\ mp' = [parsed |-> <<>>]
              /\ pc' = "mp_poll"
              /\ UNCHANGED <<result, req>>
    /\ UNCHANGED <<cli, pager, targ, item, calls, obs>>

RequestNext ==
    \/ BuildBody
    \/ DeriveKey
    \/ SignRequest
    \/ BuildHeaders
    \/ Post
    \/ Dispatch
    \/ Next

RequestSpec == RequestInit /\ [][RequestNext]_vars

(***************************************************************************)
(* A time argument is parsed                                               *)
(***************************************************************************)
TimeInit ==
    /\ targ \in {[NoTimeArg EXCEPT !.value = v, !.now = t] : v \in TimeArgs, t \in TimeClock}
    /\ cli = NoCli
    /\ pager = NoPager
    /\ req = Established
    /\ stream = <<>>
    /\ wire = <<>>
    /\ esp = NewEventStreamParser
    /\ mp = [parsed |-> <<>>]
    /\ pc = "time_arg"
    /\ item = None
    /\ result = "-"
    /\ calls = <<>>
    /\ obs = ObsInit

\* log.rs: parse_offset_or_duration(&args.start, &unix_now), in a build with
\* overflow checks or in one without
ParseOffsetOrDuration ==
    /\ pc = "time_arg"
    /\ targ.by = "-"
    /\ \E checks \in BOOLEAN :
          targ' = [targ EXCEPT !.by = "log.rs",
                               !.out = parse_offset_or_duration(targ.value, targ.now, checks)]
    /\ UNCHANGED <<cli, pager, stream, wire, esp, mp, pc, item, result, calls, obs, req>>

\* time_arg.rs: parse_relative_to(value, Utc::now(), Local)
ParseRelativeTo ==
    /\ pc = "time_arg"
    /\ targ.by = "-"
    /\ targ' = [targ EXCEPT !.by = "time_arg.rs", !.out = parse_relative_to(targ.value, targ.now)]
    /\ UNCHANGED <<cli, pager, stream, wire, esp, mp, pc, item, result, calls, obs, req>>

TimeNext ==
    \/ ParseOffsetOrDuration
    \/ ParseRelativeTo

TimeSpec == TimeInit /\ [][TimeNext]_vars

(***************************************************************************)
(* main resolves an alias                                                  *)
(***************************************************************************)
AliasInit ==
    /\ cli \in {[NoCli EXCEPT !.alias = t, !.args = l, !.command = try_parse_from(l).command, !.pc = "loop"] :
                  t \in AliasTables, l \in CommandLines}
    /\ pager = NoPager
    /\ targ = NoTimeArg
    /\ req = Established
    /\ stream = <<>>
    /\ wire = <<>>
    /\ esp = NewEventStreamParser
    /\ mp = [parsed |-> <<>>]
    /\ pc = "main"
    /\ item = None
    /\ result = "-"
    /\ calls = <<>>
    /\ obs = ObsInit

\* main: the command is one of the subcommands, which runs and returns
RunCommand ==
    /\ cli.pc = "loop"
    /\ cli.command \in Builtins
    /\ cli' = [cli EXCEPT !.pc = "done", !.result = cli.command]
    /\ UNCHANGED <<pager, targ, stream, wire, esp, mp, pc, item, result, calls, obs, req>>

\* main, Commands::External: the alias, its replacement parsed as a command
\* line, and the next turn of the loop with the new command
ResolveAlias ==
    /\ cli.pc = "loop"
    /\ cli.command = "External"
    /\ LET r == replacement(cli.alias, cli.args[1])
           line == build_iter(r.words, cli.args)
           new_cli == try_parse_from(line)
       IN  IF ~r.some THEN cli' = [cli EXCEPT !.pc = "done", !.result = "no alias found"]
           ELSE IF ~new_cli.ok
           THEN cli' = [cli EXCEPT !.pc = "done", !.result = "failed to parse args for alias"]
           ELSE cli' = [cli EXCEPT !.args = line, !.command = new_cli.command,
                                   !.expansions = (cli.expansions + 1) % 2]
    /\ UNCHANGED <<pager, targ, stream, wire, esp, mp, pc, item, result, calls, obs, req>>

AliasNext ==
    \/ RunCommand
    \/ ResolveAlias

AliasSpec == AliasInit /\ [][AliasNext]_vars /\ WF_vars(AliasNext)

(***************************************************************************)
(* The pages of a historical retrieval                                     *)
(***************************************************************************)
PagerInit ==
    /\ pager \in {[NoPager EXCEPT !.by = f, !.pc = "send"] : f \in {"print_all_events", "print_filter_events"}}
    /\ cli = NoCli
    /\ targ = NoTimeArg
    /\ req = Established
    /\ stream = <<>>
    /\ wire = <<>>
    /\ esp = NewEventStreamParser
    /\ mp = [parsed |-> <<>>]
    /\ pc = "log"
    /\ item = None
    /\ result = "-"
    /\ calls = <<>>
    /\ obs = ObsInit

\* template.clone()...send_with(client).await: a page is requested and the
\* service answers
SendWith ==
    /\ pager.pc = "send"
    /\ pager.requests < MaxPages
    /\ \E res \in Responses :
          pager' = [pager EXCEPT !.res = res, !.requests = pager.requests + 1, !.pc = "page"]
    /\ UNCHANGED <<cli, targ, stream, wire, esp, mp, pc, item, result, calls, obs, req>>

\* the head of the loop body: the error of the response, a page without events
PageHead ==
    /\ pager.pc = "page"
    /\ pager' = IF pager.res.err THEN [pager EXCEPT !.pc = "done", !.result = "Err"]
                 ELSE IF pager.res.events <= 0 THEN [pager EXCEPT !.pc = "done", !.result = "Ok"]
                 ELSE [pager EXCEPT !.left = pager.res.events, !.pc = "events"]
    /\ UNCHANGED <<cli, targ, stream, wire, esp, mp, pc, item, result, calls, obs, req>>

\* where the break after the consumer returned false leads: out of the loop
\* over the pages in print_all_events (break 'main), out of the loop over the
\* events of the page in print_filter_events (break)
BreakTarget(by) == IF by = "print_all_events" THEN "done" ELSE "token"

\* one turn of the loop over the events of the page: the consumer is called
\* and answers keep
ConsumeEvent ==
    /\ pager.pc = "events"
    /\ \E keep \in BOOLEAN :
          LET called == [pager EXCEPT !.answers = Append(pager.answers, keep)]
          IN  pager' = IF ~keep
                       THEN [called EXCEPT !.pc = BreakTarget(pager.by),
                                           !.result = IF BreakTarget(pager.by) = "done" THEN "Ok" ELSE "-"]
                       ELSE IF pager.left = 1 THEN [called EXCEPT !.left = 0, !.pc = "token"]
                       ELSE [called EXCEPT !.left = pager.left - 1]
    /\ UNCHANGED <<cli, targ, stream, wire, esp, mp, pc, item, result, calls, obs, req>>

\* the end of the loop body: the next page is requested if a token came with
\* this one, the loop ends if none did
NextToken ==
    /\ pager.pc = "token"
    /\ pager' = IF pager.res.token THEN [pager EXCEPT !.pc = "send"]
                 ELSE [pager EXCEPT !.pc = "done", !.result = "Ok"]
    /\ UNCHANGED <<cli, targ, stream, wire, esp, mp, pc, item, result, calls, obs, req>>

PagerNext ==
    \/ SendWith
    \/ PageHead
    \/ ConsumeEvent
    \/ NextToken

PagerSpec == PagerInit /\ [][PagerNext]_vars

(***************************************************************************)
(* What the server sent, read off the frames themselves                    *)
(***************************************************************************)
\* the frame has an :event-type header with the value sessionUpdate
IsSessionUpdateFrame(f) ==
    \E j \in 1..Len(f.headers) :
        f.headers[j].name = EVENT_TYPE /\ f.headers[j].value = SESSION_UPDATE

\* header j of frame f breaks the content-type assertion
BadContentType(f, j) == f.headers[j].name = CONTENT_TYPE /\ f.headers[j].value # JSON_TYPE

\* a well-formed frame: right lengths, string headers, valid UTF-8, the right content type
WellFormedFrame(f) ==
    /\ f.total < 0
    /\ f.header_len < 0
    /\ from_utf8(f.payload)
    /\ \A j \in 1..Len(f.headers) :
          /\ f.headers[j].type = 7
          /\ from_utf8(f.headers[j].name)
          /\ from_utf8(f.headers[j].value)
          /\ ~BadContentType(f, j)

\* the payloads of the sessionUpdate frames of s, in wire order
RECURSIVE PayloadsOf(_)
PayloadsOf(s) ==
    IF s = <<>> THEN <<>>
    ELSE (IF IsSessionUpdateFrame(FrameOf(Head(s))) THEN <<SomeOk(FrameOf(Head(s)).payload)>> ELSE <<>>)
         \o PayloadsOf(Tail(s))

\* per stream of the model: its frames, its length, the offset of the first
\* byte of each frame, whether all frames are well-formed, the payloads of
\* its sessionUpdate frames and of those before frame k
StreamFacts ==
    [s \in Streams |->
        [frames |-> [k \in 1..Len(s) |-> FrameOf(s[k])],
         len |-> Len(StreamBytes(s)),
         start |-> [k \in 1..Len(s) |-> Len(StreamBytes(SubSeq(s, 1, k - 1)))],
         well_formed |-> \A k \in 1..Len(s) : WellFormedFrame(FrameOf(s[k])),
         payloads |-> PayloadsOf(s),
         before |-> [k \in 1..Len(s) |-> PayloadsOf(SubSeq(s, 1, k - 1))]]]

Frames == StreamFacts[stream].frames

WellFormedStream == StreamFacts[stream].well_formed

ExpectedPayloads == StreamFacts[stream].payloads

\* the payloads of the sessionUpdate frames before frame k
PayloadsBefore(k) == StreamFacts[stream].before[k]

\* offset of the first byte of frame k in the stream
FrameStart(k) == StreamFacts[stream].start[k]

IsPrefix(a, b) == Len(a) <= Len(b) /\ a = SubSeq(b, 1, Len(a))

Last(s) == s[Len(s)]

\* offset in frame f just behind the value-type byte of header j, behind its value
HeaderTypeEnd(f, j) ==
    12 + Len(HeadersBytes(SubSeq(f.headers, 1, j - 1))) + 1 + Len(f.headers[j].name) + 1

HeaderValueEnd(f, j) == 12 + Len(HeadersBytes(SubSeq(f.headers, 1, j)))

\* the bytes the decoder has consumed: those delivered and no longer buffered
Consumed == StreamFacts[stream].len - Len(wire) - Buffered(esp)

\* the whole body was delivered and the frame decoder returned None
DecoderDone == obs.esp_ended /\ wire = <<>>

\* the input has yielded no transport error
InputIntact == \A i \in 1..Len(obs.yielded) : obs.yielded[i].err.tag # "Rewqest"

\* the session results of the payloads of the model's frames, parsed once
PayloadResults ==
    [d \in {FrameOf(n).payload : n \in FrameNames} |-> from_str(d).session_results]

\* the session results of a payload (none if it is no SessionUpdate document)
SessionResultsOf(d) ==
    IF d \in DOMAIN PayloadResults THEN PayloadResults[d] ELSE from_str(d).session_results

\* the session results of the payloads in ys, in order
RECURSIVE ResultsOf(_)
ResultsOf(ys) ==
    IF ys = <<>> THEN <<>>
    ELSE (IF Head(ys).kind = "Ok" THEN SessionResultsOf(Head(ys).val) ELSE <<>>)
         \o ResultsOf(Tail(ys))

\* the items of the frame decoder that the record decoder has taken over
Taken == IF pc = "mp_recv" /\ item.kind # "None" THEN SubSeq(obs.yielded, 1, Len(obs.yielded) - 1)
         ELSE obs.yielded

(***************************************************************************)
(* Claims                                                                  *)
(***************************************************************************)

\* C1: for a stream of well-formed frames and every chunking, once the input
\* has ended the frame decoder has yielded exactly the payloads of the
\* sessionUpdate frames, one per frame, in wire order.
C1_PayloadsOfSessionUpdates ==
    (WellFormedStream /\ DecoderDone) => obs.yielded = ExpectedPayloads

\* C2: a single well-formed frame yields, under every chunking, its payload
\* exactly once if it is a sessionUpdate and nothing otherwise, then the end.
C2_SingleFrameAnyChunking ==
    (Len(stream) = 1 /\ WellFormedStream /\ InputIntact) =>
        /\ IsPrefix(obs.yielded, ExpectedPayloads)
        /\ DecoderDone => obs.yielded = ExpectedPayloads

C2_Witness ==
    /\ stream = <<"SU2">>
    /\ DecoderDone
    /\ obs.yielded = <<SomeOk(DocTwo)>>
    /\ esp.state.tag = "BeforeLength"

\* C3: a well-formed frame that is no sessionUpdate yields no item and does
\* not block the frames behind it: in a well-formed stream holding such a
\* frame only sessionUpdate payloads are yielded, and all of them once the
\* whole input was received.
C3_OtherFramesDoNotBlock ==
    (WellFormedStream /\ InputIntact /\ \E k \in 1..Len(stream) : ~IsSessionUpdateFrame(Frames[k])) =>
        /\ IsPrefix(obs.yielded, ExpectedPayloads)
        /\ DecoderDone => Len(obs.yielded) = Len(ExpectedPayloads)

\* C4: the records the record decoder returns are the session results of the
\* envelopes it took over, envelope after envelope and in document order; an
\* envelope without results adds nothing, and the decoder returns None only
\* when the frame decoder did.
C4_RecordsInOrder ==
    /\ obs.records \o mp.parsed = ResultsOf(Taken)
    /\ (pc \in {"drv_recv", "done"} /\ item.kind = "None") =>
           (obs.esp_ended /\ mp.parsed = <<>> /\ obs.records = ResultsOf(obs.yielded))

C4_Witness ==
    /\ stream = <<"SU2", "SU0">>
    /\ pc = "done"
    /\ item.kind = "None"
    /\ Len(obs.yielded) = 2
    /\ Len(obs.records) = 2

\* C5: when the consumer answers false on its k-th call, that call is the
\* last one and request_and_process has returned Ok(()).
C5_StopAfterK ==
    \A k \in 1..Len(calls) :
        ~calls[k].keep => (k = Len(calls) /\ pc = "done" /\ result = "Ok")

C5_Witness ==
    /\ pc = "done"
    /\ Len(calls) = 1
    /\ ~calls[1].keep
    /\ mp.parsed # <<>>
    /\ wire # <<>>

\* C6: an envelope of N session results fills the FIFO with those N records
\* in array order, every pull with a non-empty FIFO pops its front record
\* without touching the frame decoder, and the frame decoder is asked (and the
\* FIFO replaced) only when the FIFO is empty.
C6_FifoDrainedFirst ==
    [][/\ pc' \in {"esp_get", "esp_input", "mp_recv"} => mp'.parsed = <<>>
       /\ (pc = "mp_recv" /\ item.kind = "Ok" /\ from_str(item.val).ok) =>
              mp'.parsed = from_str(item.val).session_results
       /\ (pc = "mp_poll" /\ mp.parsed # <<>>) =>
              /\ pc' = "drv_recv"
              /\ item' = SomeOk(<<Head(mp.parsed)>>)
              /\ mp'.parsed = Tail(mp.parsed)
              /\ esp' = esp
              /\ wire' = wire]_vars

C6_Witness ==
    /\ stream[1] = "SU2"
    /\ pc = "mp_poll"
    /\ Len(mp.parsed) = 1
    /\ Len(obs.records) = 1

\* the value of a header is the next thing the decoder reads: it is not
\* consumed yet, also when it is empty
ValuePending ==
    esp.state.tag = "Header" /\ esp.state.hstate = "BeforeValue" /\ esp.header_name.some

\* C7: once the value of a :content-type header other than
\* application/x-amz-json-1.1 is consumed, the decoder has stopped right there
\* with UnexpectedStreamContentType carrying the value, and no payload of that
\* frame is yielded; the error arises at no other place.
C7_ContentTypeError ==
    /\ \A k \in 1..Len(stream) : \A j \in 1..Len(Frames[k].headers) :
          (BadContentType(Frames[k], j)
               /\ Consumed >= FrameStart(k) + HeaderValueEnd(Frames[k], j)
               /\ ~ValuePending) =>
              /\ Consumed = FrameStart(k) + HeaderValueEnd(Frames[k], j)
              /\ obs.yielded # <<>>
              /\ Last(obs.yielded) =
                     SomeErr(Error("UnexpectedStreamContentType", Frames[k].headers[j].value, ""))
              /\ Len(obs.yielded) - 1 <= Len(PayloadsBefore(k))
    /\ \A i \in 1..Len(obs.yielded) :
          obs.yielded[i].err.tag = "UnexpectedStreamContentType" =>
              \E k \in 1..Len(stream) : \E j \in 1..Len(Frames[k].headers) :
                  /\ BadContentType(Frames[k], j)
                  /\ Consumed = FrameStart(k) + HeaderValueEnd(Frames[k], j)

C7_Witness ==
    /\ stream = <<"SU2", "BADCT">>
    /\ pc = "done"
    /\ result = "UnexpectedStreamContentType"
    /\ Last(obs.yielded).err.bytes = <<120>>
    /\ esp.is_session_update

\* C8: a header whose value-type byte is not 7 stops the decoder with
\* UnsupportedStreamHeaderType carrying that byte, right behind the type byte:
\* no byte of the value length or of the value is consumed.
C8_UnsupportedHeaderType ==
    /\ \A k \in 1..Len(stream) : \A j \in 1..Len(Frames[k].headers) :
          (Frames[k].headers[j].type # 7
               /\ Consumed >= FrameStart(k) + HeaderTypeEnd(Frames[k], j)) =>
              /\ Consumed = FrameStart(k) + HeaderTypeEnd(Frames[k], j)
              /\ obs.yielded # <<>>
              /\ Last(obs.yielded) =
                     SomeErr(Error("UnsupportedStreamHeaderType", <<Frames[k].headers[j].type>>, ""))
    /\ \A i \in 1..Len(obs.yielded) :
          obs.yielded[i].err.tag = "UnsupportedStreamHeaderType" =>
              \E k \in 1..Len(stream) : \E j \in 1..Len(Frames[k].headers) :
                  /\ Frames[k].headers[j].type # 7
                  /\ obs.yielded[i].err.bytes = <<Frames[k].headers[j].type>>
                  /\ Consumed = FrameStart(k) + HeaderTypeEnd(Frames[k], j)

C8_Witness ==
    /\ stream = <<"OTHER", "BADTYPE">>
    /\ pc = "done"
    /\ result = "UnsupportedStreamHeaderType"
    /\ Last(obs.yielded).err.bytes = <<6>>
    /\ esp.state.hstate = "BeforeValueType"

\* C9: the decoder goes from BeforeCRC back to BeforeLength only with the
\* remaining-length counter at 0 and the leftover queue empty; when the
\* trailing checksum is consumed and either does not hold, it stays in
\* BeforeCRC and yields a StreamParse error.
C9_FrameEndCheck ==
    [][/\ (esp.state.tag = "BeforeCRC" /\ esp'.state.tag = "BeforeLength") =>
              (esp'.remain_len = U32Zero /\ esp'.previous = <<>>)
       /\ (/\ esp.state.tag = "BeforeCRC"
           /\ Buffered(esp') = Buffered(esp) - 4
           /\ (esp'.remain_len # U32Zero \/ esp'.previous # <<>>)) =>
              /\ esp'.state.tag = "BeforeCRC"
              /\ pc' = "mp_recv"
              /\ item'.kind = "Err"
              /\ item'.err.tag = "StreamParse"]_vars

C9_Witness ==
    /\ Len(stream) = 2
    /\ esp.state.tag = "BeforeLength"
    /\ esp.buffer.some
    /\ esp.remain_len = U32Zero
    /\ Consumed = FrameStart(2)

\* C10: an error item is final: from the step that produces it on, nothing is
\* consumed, pulled or handed to the consumer, the only steps left pass the
\* error up to request_and_process, which returns it; a call that has
\* returned takes no further step, and it returned Ok(()) or that one error.
C10_ErrorsAreTerminal ==
    [][/\ item.kind = "Err" =>
              /\ item' = item
              /\ calls' = calls
              /\ wire' = wire
              /\ esp' = esp
              /\ mp' = mp
              /\ pc' \in {"drv_recv", "done"}
       /\ pc # "done"
       /\ pc' = "done" =>
              \/ item.kind = "Err" /\ result' = item.err.tag
              \/ item.kind # "Err" /\ result' = "Ok"]_vars

C10_Witness ==
    /\ stream = <<"SU2", "BADJSON">>
    /\ pc = "done"
    /\ result = "Json"
    /\ Len(calls) = 2

(***************************************************************************)
(* The length fields of a frame                                            *)
(***************************************************************************)
\* the value of the total-length field of frame f, of its header-length field
TotalField(f) == IF f.total < 0 THEN RightTotal(f) ELSE f.total

HeaderField(f) == IF f.header_len < 0 THEN Len(HeadersBytes(f.headers)) ELSE f.header_len

\* the bytes consumed when w is left on the wire and the decoder is p
ConsumedAt(w, p) == StreamFacts[stream].len - Len(w) - Buffered(p)

\* the frame the consumed bytes end in: the last one that starts before them
FrameIn(c) ==
    LET ks == {k \in 1..Len(stream) : FrameStart(k) < c}
    IN  CHOOSE k \in ks : \A j \in ks : j <= k

\* the decoder is inside a frame whose total-length field it could take in
InFrame ==
    /\ Consumed > 0
    /\ esp.state.tag # "BeforeLength"
    /\ TotalField(Frames[FrameIn(Consumed)]) >= 16 + HeaderField(Frames[FrameIn(Consumed)])

\* C16: the step that reads the payload of a frame with total length T and
\* header-block length H consumes exactly T - 4 - 12 - H bytes, and the step
\* that ends the frame has consumed exactly T bytes since the frame began.
C16_PayloadLength ==
    [][/\ (InFrame /\ pc = "esp_get" /\ esp.state.tag = "Message" /\ Buffered(esp') # Buffered(esp)) =>
              LET f == Frames[FrameIn(Consumed)]
              IN  /\ wire' = wire
                  /\ Buffered(esp) - Buffered(esp') = TotalField(f) - 4 - 12 - HeaderField(f)
                  /\ Consumed = FrameStart(FrameIn(Consumed)) + 12 + HeaderField(f)
       /\ (InFrame /\ esp.state.tag = "BeforeCRC" /\ esp'.state.tag = "BeforeLength") =>
              ConsumedAt(wire', esp') =
                  FrameStart(FrameIn(Consumed)) + TotalField(Frames[FrameIn(Consumed)])]_vars

C16_Witness ==
    /\ stream = <<"OTHER", "SU2">>
    /\ esp.state.tag = "BeforeCRC"
    /\ esp.remain_len = U32(4)
    /\ Consumed = FrameStart(2) + TotalField(Frames[2]) - 4
    /\ Len(obs.yielded) = 1
    /\ Last(obs.yielded).val = DocTwo

\* C17, as the code has it: the total-length field counts every byte of the
\* frame, its own 4 bytes included: inside a frame the remaining-length
\* counter is the total length minus all bytes of the frame consumed so far,
\* and in state Message the payload length is total - header length - 16.
C17_TotalCountsItself ==
    InFrame =>
        LET k == FrameIn(Consumed)
        IN  /\ esp.remain_len = U32(TotalField(Frames[k]) - (Consumed - FrameStart(k)))
            /\ (esp.state.tag = "Message" /\ Consumed = FrameStart(k) + 12 + HeaderField(Frames[k])) =>
                   MessageLen(esp).val = U32(TotalField(Frames[k]) - HeaderField(Frames[k]) - 16)

C17_Witness ==
    /\ stream = <<"SUCT">>
    /\ esp.state.tag = "Message"
    /\ Consumed = 12 + HeaderField(Frames[1])
    /\ MessageLen(esp).val = U32(Len(DocOne))
    /\ esp.remain_len = U32(Len(DocOne) + 4)

\* C17, as stated: the step that reads the payload consumes
\* total length - header-block length - 12 bytes.
C17_TotalExcludesLengthField ==
    [][(InFrame /\ pc = "esp_get" /\ esp.state.tag = "Message" /\ Buffered(esp') # Buffered(esp)) =>
          Buffered(esp) - Buffered(esp') =
              TotalField(Frames[FrameIn(Consumed)]) - HeaderField(Frames[FrameIn(Consumed)]) - 12]_vars

\* C18: the step of get that reads the payload of a frame that is no
\* sessionUpdate yields nothing, whatever the bytes of the payload, and
\* leaves the decoder before the trailing checksum.
C18_OtherPayloadDiscarded ==
    [][(/\ pc = "esp_get"
        /\ esp.state.tag = "Message"
        /\ ~esp.is_session_update
        /\ CanRead(esp, MessageLen(esp).val)) =>
              /\ esp'.state.tag = "BeforeCRC"
              /\ obs'.yielded = obs.yielded
              /\ item' = item]_vars

\* C19, as the code has it: whenever the consumer is invoked, and when its
\* false return has ended the call, the payload of the frame that carried the
\* record is consumed and the decoder is in BeforeCRC: the 4 bytes of the
\* trailing checksum of that frame are still to be read.
C19_StopBeforeChecksum ==
    (\/ pc = "drv_recv" /\ item.kind = "Ok"
     \/ pc = "done" /\ calls # <<>> /\ ~Last(calls).keep) =>
        /\ esp.state.tag = "BeforeCRC"
        /\ esp.remain_len = U32(4)
        /\ InFrame
        /\ Consumed = FrameStart(FrameIn(Consumed)) + TotalField(Frames[FrameIn(Consumed)]) - 4

C19_Witness ==
    /\ stream = <<"SU2", "SU2">>
    /\ pc = "done"
    /\ result = "Ok"
    /\ Len(calls) = 3
    /\ ~Last(calls).keep
    /\ esp.state.tag = "BeforeCRC"
    /\ Consumed = FrameStart(2) + TotalField(Frames[2]) - 4

\* C19, as stated: whenever the consumer is invoked, and when its false
\* return has ended the call, the decoder is back in its initial per-frame
\* state, the frame that carried the record consumed through its checksum.
C19_StopAtFrameEnd ==
    (\/ pc = "drv_recv" /\ item.kind = "Ok"
     \/ pc = "done" /\ calls # <<>> /\ ~Last(calls).keep) =>
        /\ esp.state.tag = "BeforeLength"
        /\ Consumed \in {FrameStart(k) + TotalField(Frames[k]) : k \in 1..Len(stream)}

\* C20: an error item of the frame decoder is the last item it yields.
C20_DecoderErrorIsLast ==
    \A i \in 1..Len(obs.yielded) : obs.yielded[i].kind = "Err" => i = Len(obs.yielded)

(***************************************************************************)
(* The request as sent and as signed                                       *)
(***************************************************************************)
\* the lines of string s: the runs between its line breaks
RECURSIVE Lines(_, _, _)
Lines(s, i, line) ==
    IF i > Len(s) THEN <<line>>
    ELSE IF s[i].lit = "\n" THEN <<line>> \o Lines(s, i + 1, <<>>)
    ELSE Lines(s, i + 1, Append(line, s[i]))

\* the header names of canonical request c: the first run of each line from
\* the fourth on, up to the empty line that ends the headers
RECURSIVE HeaderLineNames(_, _)
HeaderLineNames(ls, i) ==
    IF i > Len(ls) \/ ls[i] = <<>> THEN <<>>
    ELSE <<ls[i][1].lit>> \o HeaderLineNames(ls, i + 1)

CanonicalHeaderNames(c) == HeaderLineNames(Lines(c, 1, <<>>), 4)

\* the line of canonical request c that names the signed headers: the one
\* behind the empty line that ends the headers
SignedHeadersLine(c) ==
    LET ls == Lines(c, 1, <<>>)
    IN  ls[4 + Len(CanonicalHeaderNames(c)) + 1]

\* the names in a list separated by semicolons
RECURSIVE ListNames(_)
ListNames(s) ==
    IF s = <<>> THEN <<>>
    ELSE (IF Head(s).lit = ";" THEN <<>> ELSE <<Head(s).lit>>) \o ListNames(Tail(s))

\* the values of the headers called name in header map hs
RECURSIVE HeaderValues(_, _)
HeaderValues(hs, name) ==
    IF hs = <<>> THEN <<>>
    ELSE (IF Head(hs).name = name THEN <<Head(hs).value>> ELSE <<>>) \o HeaderValues(Tail(hs), name)

\* the SignedHeaders list of an Authorization value: what stands between
\* "SignedHeaders=" and ", Signature="
RECURSIVE Between(_, _, _, _)
Between(s, from, to, inside) ==
    IF s = <<>> THEN <<>>
    ELSE IF ~inside THEN Between(Tail(s), from, to, Head(s).lit = from)
    ELSE IF Head(s).lit = to THEN <<>>
    ELSE <<Head(s)>> \o Between(Tail(s), from, to, TRUE)

AuthSignedHeaders(a) == Between(a, "/logs/aws4_request, SignedHeaders=", ", Signature=", FALSE)

NoLineBreak(s) == \A i \in 1..Len(s) : s[i].lit # "\n"

IndexOf(names, n) == CHOOSE i \in 1..Len(names) : names[i] = n

\* every request a call can have ready to send, at every reading of the clock
SignedRequests ==
    {WithHeaders(WithSignature(WithKey(WithBody(r), now))) : r \in Requests, now \in Clock}

\* C11, as the code has it: once a response is there, the call ends without
\* decoding anything unless its Content-Type is the event-stream type: with
\* Api and the body for the JSON type, or with Http if the body cannot be
\* read; with UnexpectedHttpContentType for any other or a missing
\* Content-Type. The consumer is invoked only under the event-stream type.
C11_ContentTypeDispatch ==
    /\ (pc = "done" /\ req.responded /\ req.content_type = SomeString(HTTP_JSON)) =>
          \/ result = "Api" /\ req.error = ErrorBody
          \/ result = "Http" /\ req.error = <<>>
    /\ (pc = "done" /\ req.responded /\ req.content_type
            \in {NoString, SomeString(Str(<<"text/html">>))}) =>
          /\ result = "UnexpectedHttpContentType"
          /\ req.error = DebugOption(req.content_type)
    /\ (req.responded /\ req.content_type # SomeString(EVENTSTREAM)) =>
          /\ calls = <<>>
          /\ obs = ObsInit
          /\ esp = NewEventStreamParser
          /\ wire = <<>>
    /\ calls # <<>> => req.responded /\ req.content_type = SomeString(EVENTSTREAM)

C11_Witness ==
    /\ pc = "done"
    /\ req.responded
    /\ req.content_type = SomeString(HTTP_JSON)
    /\ result = "Http"
    /\ calls = <<>>

\* C11, as stated: a response of the JSON type always ends the call with an
\* Api error that carries the response body.
C11_JsonAlwaysApi ==
    (pc = "done" /\ req.responded /\ req.content_type = SomeString(HTTP_JSON)) =>
        result = "Api" /\ req.error = ErrorBody

\* C12: a call sends at most one request, and none after a failure of the
\* POST, an error response or an error in the stream.
C12_OneRequest ==
    /\ Len(req.posts) <= 1
    /\ (pc \notin {"build_body", "derive_key", "sign_request", "build_headers", "post", "done"}) =>
          Len(req.posts) = 1
    /\ (pc = "done" /\ result \notin {"Serialize", "Signing", "HttpHeader"}) => Len(req.posts) = 1

C12_Witness ==
    /\ pc = "done"
    /\ result = "Rewqest"
    /\ Len(req.posts) = 1
    /\ Len(calls) = 2

\* C13: a call that ended with a serialization, signing or header error has
\* sent nothing, and a request is sent only with the signing key, the
\* signature and all headers built, the values of the headers well-formed.
C13_NothingSentBeforeSigned ==
    /\ result \in {"Serialize", "Signing", "HttpHeader"} => req.posts = <<>>
    /\ \A i \in 1..Len(req.posts) :
          /\ req.body # <<>>
          /\ req.final_signing_key # <<>>
          /\ req.final_signature # <<>>
          /\ req.posts[i].headers = req.headers
          /\ req.posts[i].body = req.body
          /\ Len(HeaderValues(req.headers, "Authorization")) = 1
          /\ \A j \in 1..Len(req.headers) : NoLineBreak(req.headers[j].value)

C13_Witness ==
    /\ pc = "done"
    /\ result = "HttpHeader"
    /\ req.credentials.session_token.some
    /\ req.final_signature # <<>>
    /\ req.posts = <<>>

\* C14: in a request that is ready to be sent or was sent, the session token
\* is in the canonical request (right between x-amz-date and x-amz-target),
\* in the SignedHeaders list and in the header X-Amz-Security-Token with its
\* value if the credentials have one, and in none of them if not; the
\* SignedHeaders list, in the canonical request and in the Authorization
\* header, names the headers of the canonical request in their order.
C14_TokenConsistent ==
    (pc \in {"post", "dispatch"} /\ req.headers # <<>>) =>
        LET names == CanonicalHeaderNames(req.request_to_sign)
            signed == ListNames(SignedHeadersLine(req.request_to_sign))
            sent == HeaderValues(req.headers, "X-Amz-Security-Token")
            token == req.credentials.session_token
        IN  /\ signed = names
            /\ ListNames(AuthSignedHeaders(HeaderValues(req.headers, "Authorization")[1])) = names
            /\ IF token.some
               THEN /\ names = <<"content-type", "host", "x-amz-date", "x-amz-security-token",
                                 "x-amz-target">>
                    /\ Lines(req.request_to_sign, 1, <<>>)[4 + IndexOf(names, "x-amz-security-token") - 1]
                           = Str(<<"x-amz-security-token", ":">>) \o token.val
                    /\ sent = <<token.val>>
               ELSE /\ names = <<"content-type", "host", "x-amz-date", "x-amz-target">>
                    /\ sent = <<>>
            /\ \A i \in 1..Len(req.posts) : req.posts[i].headers = req.headers

C14_Witness ==
    /\ pc = "dispatch"
    /\ Len(req.posts) = 1
    /\ req.credentials.session_token = SomeString(Str(<<"token">>))
    /\ HeaderValues(req.posts[1].headers, "X-Amz-Security-Token") = <<Str(<<"token">>)>>

\* C15: the Authorization header of a request ready to be sent is the one of
\* every request signed from the same credentials, region, body and reading
\* of the clock, whatever the other arguments of the call are.
C15_SigningDeterministic ==
    (pc = "post" /\ req.headers # <<>>) =>
        \A o \in SignedRequests :
            (/\ o.credentials = req.credentials
             /\ o.region = req.region
             /\ o.body = req.body
             /\ o.now = req.now) =>
                /\ HeaderValues(o.headers, "Authorization") = HeaderValues(req.headers, "Authorization")
                /\ o.final_signature = req.final_signature

C15_Witness ==
    /\ pc = "post"
    /\ req.headers # <<>>
    /\ req.filter = SomeString(<<>>)
    /\ \E o \in SignedRequests :
          /\ o.filter = NoString
          /\ o.body = req.body
          /\ o.credentials = req.credentials
          /\ o.now = req.now
          /\ o.region = req.region
          /\ HeaderValues(o.headers, "Authorization") = HeaderValues(req.headers, "Authorization")

(***************************************************************************)
(* The record decoder after a payload that is no SessionUpdate document    *)
(***************************************************************************)
\* the record decoder has been handed a payload that does not parse
JsonFailed == \E i \in 1..Len(Taken) : Taken[i].kind = "Ok" /\ ~from_str(Taken[i].val).ok

\* C21: a payload that does not parse as a SessionUpdate document makes the
\* record decoder yield a Json error and none of the payload's records, and
\* once that has happened the record decoder yields no further record,
\* however often it is pulled.
C21_JsonErrorIsFatal ==
    [][/\ (pc = "mp_recv" /\ item.kind = "Ok" /\ ~from_str(item.val).ok) =>
              /\ item' = SomeErr(Error("Json", <<>>, ""))
              /\ mp'.parsed = <<>>
              /\ obs'.records = obs.records
       /\ JsonFailed => obs'.records = obs.records]_vars

(***************************************************************************)
(* The states of the frame decoder                                         *)
(***************************************************************************)
\* ParserState in the order get goes through it
StateOrder ==
    <<"BeforeLength", "BeforeHeaderLength", "BeforePreludeCRC", "Header", "Message", "BeforeCRC">>

\* the state that follows tag; BeforeLength follows BeforeCRC
NextState(tag) ==
    LET i == CHOOSE k \in 1..Len(StateOrder) : StateOrder[k] = tag
    IN  StateOrder[(i % Len(StateOrder)) + 1]

\* C24: every step leaves the state of the frame decoder as it is or moves it
\* to the next state of BeforeLength -> BeforeHeaderLength -> BeforePreludeCRC
\* -> Header -> Message -> BeforeCRC -> BeforeLength: no state is skipped or
\* entered out of order, and BeforeLength is entered only from BeforeCRC.
C24_StateOrder ==
    [][/\ esp'.state.tag \in {esp.state.tag, NextState(esp.state.tag)}
       /\ (esp'.state.tag = "BeforeLength" /\ esp.state.tag # "BeforeLength") =>
              esp.state.tag = "BeforeCRC"]_vars

\* a second frame is in state Message: the first went through all states
C24_Witness ==
    /\ Len(stream) = 2
    /\ esp.state.tag = "Message"
    /\ Consumed > FrameStart(2)

\* HeaderParserState in the order read_header goes through it
HeaderStateOrder ==
    <<"BeforeNameLength", "BeforeName", "BeforeValueType", "BeforeValueLenght", "BeforeValue">>

\* the sub-state that follows hstate; BeforeNameLength follows BeforeValue
NextHeaderState(hstate) ==
    LET i == CHOOSE k \in 1..Len(HeaderStateOrder) : HeaderStateOrder[k] = hstate
    IN  HeaderStateOrder[(i % Len(HeaderStateOrder)) + 1]

\* C25: inside the header block every step leaves the sub-state as it is or
\* moves it to the next one of BeforeNameLength -> BeforeName ->
\* BeforeValueType -> BeforeValueLength -> BeforeValue -> BeforeNameLength,
\* and the decoder goes on to state Message only at a header boundary: with
\* the remaining header length 0 and in sub-state BeforeNameLength.
C25_ExitAtHeaderBoundary ==
    [][/\ (esp.state.tag = "Header" /\ esp'.state.tag = "Header") =>
              esp'.state.hstate \in {esp.state.hstate, NextHeaderState(esp.state.hstate)}
       /\ (esp.state.tag = "Header" /\ esp'.state.tag = "Message") =>
              /\ esp.state.len = U32Zero
              /\ esp.state.hstate = "BeforeNameLength"]_vars

(***************************************************************************)
(* Reads and the buffered bytes                                            *)
(***************************************************************************)
\* the number of bytes the read of the current state asks for (0: the state
\* reads nothing)
FieldLen(p) ==
    CASE p.state.tag \in {"BeforeLength", "BeforeHeaderLength", "BeforePreludeCRC", "BeforeCRC"} ->
            U32(4)
      [] p.state.tag = "Header" ->
            IF p.state.len = U32Zero THEN U32Zero
            ELSE IF p.state.hstate \in {"BeforeNameLength", "BeforeValueType"} THEN U32(1)
            ELSE IF p.state.hstate = "BeforeValueLenght" THEN U32(2)
            ELSE U32(p.state.n)
      [] p.state.tag = "Message" -> MessageLen(p).val

\* C26: a short read changes nothing. When fewer bytes are buffered than the
\* read of the current state asks for, the pass of get consumes no byte and
\* leaves the state, the sub-state with its header budget, the buffered
\* header name and the session-update flag as they are, and the decoder
\* turns to its input; the chunk it gets is added to the buffered bytes and
\* the same state is tried again.
C26_ShortReadChangesNothing ==
    [][/\ (pc = "esp_get" /\ ~CanRead(esp, FieldLen(esp))) =>
              /\ esp'.previous = esp.previous
              /\ esp'.buffer = esp.buffer
              /\ esp'.state = esp.state
              /\ esp'.header_name = esp.header_name
              /\ esp'.is_session_update = esp.is_session_update
              /\ pc' # "panicked" => pc' = "esp_input"
       /\ (pc = "esp_input" /\ pc' = "esp_get") =>
              /\ esp'.state = esp.state
              /\ esp'.header_name = esp.header_name
              /\ esp'.is_session_update = esp.is_session_update
              /\ esp'.previous \o esp'.buffer.bytes \o wire' =
                     esp.previous \o esp.buffer.bytes \o wire]_vars

\* a header value was not buffered in full: the decoder waits in BeforeValue
\* with the bytes it has
C26_Witness ==
    /\ pc = "esp_input"
    /\ esp.state.hstate = "BeforeValue"
    /\ Buffered(esp) > 0
    /\ esp.header_name.some

\* C27: the frame decoder asks its input for another chunk only on a short
\* read: whenever it turns to its input, fewer bytes are buffered than the
\* read of its current state asks for.
C27_InputOnlyOnShortRead ==
    pc = "esp_input" => ~CanRead(esp, FieldLen(esp))

\* the bytes not consumed yet: leftover queue, unread part of the current
\* chunk, and what the input has not delivered
Unread(p, w) == p.previous \o p.buffer.bytes \o w

\* C28: bytes are consumed front to back and none is dropped, duplicated or
\* reordered. Absorbing a chunk moves its bytes from the input behind the
\* buffered ones and consumes nothing; a pass of get takes bytes from the
\* front of the buffered ones only; no other step touches them. So at all
\* times the bytes consumed, then the leftover queue, then the unread part of
\* the current chunk are the chunks received so far, in order.
C28_BytesConserved ==
    [][/\ pc = "esp_input" => Unread(esp', wire') = Unread(esp, wire)
       /\ pc = "esp_get" =>
              /\ wire' = wire
              /\ \E k \in 0..Buffered(esp) :
                     esp'.previous \o esp'.buffer.bytes = Drop(esp.previous \o esp.buffer.bytes, k)
       /\ pc \notin {"esp_input", "esp_get"} => (esp' = esp /\ wire' = wire)]_vars

\* bytes were consumed, and both the leftover queue and the current chunk
\* hold unread bytes
C28_Witness ==
    /\ Consumed > 0
    /\ esp.previous # <<>>
    /\ esp.buffer.bytes # <<>>

(***************************************************************************)
(* The length counters                                                     *)
(***************************************************************************)
\* C29: whenever the decoder is in BeforeName(n) or BeforeValue(n) with the
\* remaining header budget r, n <= r: the declared length of a header name or
\* value never exceeds what is left of the header block, so subtracting it
\* does not underflow.
C29_HeaderLengthWithinBudget ==
    (esp.state.tag = "Header" /\ esp.state.hstate \in {"BeforeName", "BeforeValue"}) =>
        (esp.state.len.hi > 0 \/ esp.state.n <= esp.state.len.lo)

\* the pass of get on p subtracts more from remain_len than it holds: in
\* total - 4, in remain_len - 4 or in advance
RemainLenUnderflows(p) ==
    \/ /\ p.state.tag = "BeforeLength"
       /\ CanRead(p, U32(4))
       /\ AfterLength(FoldU32(ReadBytes(p, U32(4)))).underflow
    \/ /\ p.state.tag = "Message"
       /\ MessageLen(p).underflow
    \/ /\ p.state.tag # "BeforeLength"
       /\ FieldLen(p) # U32Zero
       /\ CanRead(p, FieldLen(p))
       /\ advance(p, FieldLen(p)).underflow

\* C30: for every byte stream, frames with a total length below 4 or below
\* 16 plus the header-block length included, no pass of get takes the
\* remaining-length counter below zero.
C30_RemainLenNeverUnderflows ==
    pc = "esp_get" => ~RemainLenUnderflows(esp)

(***************************************************************************)
(* Time arguments                                                          *)
(***************************************************************************)
\* the small natural with the digits cs
RECURSIVE NatOf(_)
NatOf(cs) == IF cs = <<>> THEN 0 ELSE NatOf(SubSeq(cs, 1, Len(cs) - 1)) * 10 + DigitVal[cs[Len(cs)]]

\* C22: a time argument that is a bare integer such as 100 is an offset from
\* now: parsing it gives the instant that many seconds before the reading of
\* the clock.
C22_BareIntegerIsOffset ==
    (targ.by # "-" /\ IsDigits(targ.value) /\ Len(targ.value) <= 3) =>
        targ.out = TimeOk(MsMinus(targ.now, NatOf(targ.value) * 1000))

\* C23: a numeric time argument n is taken as epoch milliseconds when
\* n > 946684800000 and as epoch seconds, n * 1000 ms, otherwise, so that
\* 1700000000 and 1700000000000 give the same instant; for every 64-bit n the
\* result is that value, computed without overflow.
C23_EpochSecondsOrMillis ==
    (targ.by # "-" /\ parse_i64(targ.value).kind = "Ok") =>
        LET n == parse_i64(targ.value).ms
        IN  /\ targ.out.kind = "Ok"
            /\ I64Less(Year2000Ms, n) => targ.out.ms = n
            /\ ~I64Less(Year2000Ms, n) =>
                   (~times_1000(n).overflow /\ targ.out.ms = times_1000(n).val)

(***************************************************************************)
(* Errors, ends and progress of the frame decoder                          *)
(***************************************************************************)
\* the error items the frame decoder made itself (not those of its input)
DecoderErrors ==
    {i \in 1..Len(obs.yielded) : obs.yielded[i].kind = "Err" /\ obs.yielded[i].err.tag # "Rewqest"}

\* C31: valid input never produces an error. For every stream of well-formed
\* frames and every chunking of it, no pull of the frame decoder yields an
\* error item of its own.
C31_ValidInputNoError ==
    WellFormedStream => DecoderErrors = {}

\* the bytes the input has delivered so far
Delivered == StreamFacts[stream].len - Len(wire)

\* offset just behind the last payload byte of frame k
PayloadEnd(k) == FrameStart(k) + TotalField(Frames[k]) - 4

\* C32: a sessionUpdate payload is delivered as soon as it is complete. When
\* the frame decoder turns to its input for another chunk, the payload of
\* every sessionUpdate frame whose last payload byte has been delivered has
\* been yielded already.
C32_PayloadAsSoonAsComplete ==
    (WellFormedStream /\ pc = "esp_input") =>
        \A k \in 1..Len(stream) :
            (IsSessionUpdateFrame(Frames[k]) /\ Delivered >= PayloadEnd(k)) =>
                /\ Len(obs.yielded) > Len(PayloadsBefore(k))
                /\ obs.yielded[Len(PayloadsBefore(k)) + 1] = SomeOk(Frames[k].payload)

\* C33: when the input ends, the frame decoder ends its sequence without an
\* error in whatever state it is. The step that takes the end of the input
\* returns None and leaves the decoder as it is; after it nothing is yielded,
\* no record is made, the consumer is not called, and the call returns Ok.
C33_CleanEndOfInput ==
    [][/\ (pc = "esp_input" /\ obs'.esp_ended) =>
              /\ item' = None
              /\ esp' = esp
              /\ obs'.yielded = obs.yielded
       /\ obs.esp_ended =>
              /\ obs'.yielded = obs.yielded
              /\ obs'.records = obs.records
              /\ calls' = calls
              /\ pc' = "done" => result' = "Ok"]_vars

\* the input stopped inside the payload of a frame and the call returned Ok
C33_Witness ==
    /\ obs.esp_ended
    /\ wire # <<>>
    /\ esp.state.tag = "Message"
    /\ Buffered(esp) > 0
    /\ pc = "done"
    /\ result = "Ok"

\* C34: per-frame scratch state is reset between frames. Whenever the frame
\* decoder is in state BeforeLength, the session-update flag is false and no
\* header name is buffered.
C34_ScratchResetBetweenFrames ==
    esp.state.tag = "BeforeLength" => (~esp.is_session_update /\ ~esp.header_name.some)

\* C35: the frame decoder always makes progress, so that repeated pulls on
\* a finite input reach the end of the sequence, pulls after an error item
\* included. A pull that returns an item has changed the decoder: it has
\* consumed a byte or left the state it was in (a pull that returns an item
\* and leaves the decoder as it was returns the same item on every later
\* pull, and the end of the sequence is never reached).
C35_PullMakesProgress ==
    [][(pc = "esp_get" /\ pc' = "mp_recv") => esp' # esp]_vars

\* C40: in any sequence of pulls on the frame decoder a header name is
\* buffered whenever a header value is completed: a step that enters one of
\* the sub-states BeforeValueType, BeforeValueLenght and BeforeValue leaves
\* header_name set, and no pull yields the StreamParse error
\* "Header name is missing".
C40_HeaderNameNeverMissing ==
    [][/\ (/\ esp'.state.tag = "Header"
            /\ esp'.state.hstate \in {"BeforeValueType", "BeforeValueLenght", "BeforeValue"}
            /\ (esp.state.tag # "Header" \/ esp.state.hstate # esp'.state.hstate)) =>
              esp'.header_name.some
       /\ \A i \in 1..Len(obs'.yielded) :
              obs'.yielded[i].err.text # "Header name is missing"]_vars

\* C39: whenever the frame decoder runs the BeforeCRC state the
\* remaining-length counter is exactly 4, and no pull yields the StreamParse
\* error "remain size has to be 0", for every input and every sequence of
\* pulls.
C39_RemainIsFourBeforeCRC ==
    /\ (pc = "esp_get" /\ esp.state.tag = "BeforeCRC") => esp.remain_len = U32(4)
    /\ \A i \in 1..Len(obs.yielded) : obs.yielded[i].err.text # "remain size has to be 0"

\* C36: the ingestion time handed to the consumer equals the record's
\* ingestionTime for every unsigned 64-bit value: the i-th call of the
\* consumer carries the non-negative value of the i-th record returned by the
\* record decoder.
C36_IngestionTimeUnchanged ==
    \A i \in 1..Len(calls) :
        i <= Len(obs.records) =>
            calls[i].ingestion_time = [neg |-> FALSE, mag |-> obs.records[i].ingestion_time]

\* C37: in historical retrieval both print_all_events and print_filter_events
\* honor the stop signal of the consumer: once the consumer has returned false
\* it is not called again and no further page is requested; otherwise the
\* pages go on until one has no events or comes without a token.
C37_StopSignalHonored ==
    [][/\ (\E i \in 1..Len(pager.answers) : ~pager.answers[i]) =>
              (pager'.answers = pager.answers /\ pager'.requests = pager.requests)
       /\ (/\ pager.pc # "done" /\ pager'.pc = "done" /\ pager'.result = "Ok"
           /\ \A i \in 1..Len(pager'.answers) : pager'.answers[i]) =>
              (pager.res.events <= 0 \/ ~pager.res.token)]_vars

\* C38: alias resolution terminates: for every alias table the command loop
\* of main reaches a subcommand or an error after finitely many alias
\* expansions, also when an alias expands to another alias or to itself.
C38_AliasResolutionTerminates == <>(cli.pc = "done")


====
